---- MODULE Spec2Model ----
(***************************************************************************)
(* Dockrion SDK dependency engine: version parsing and comparison          *)
(* (dependencies/version.py), requirement parsing (dependencies/parser.py),*)
(* conflict resolution (dependencies/resolver.py) and the merge of user    *)
(* and platform requirements (dependencies/merger.py).                     *)
(*                                                                         *)
(* Text is modelled as a sequence of one-character strings, so that        *)
(* formatting (str, to_pip_string) and parsing (parse_version,             *)
(* parse_requirement, normalize_package_name) are computed character by    *)
(* character, as the Python code computes them.                            *)
(***************************************************************************)
EXTENDS Integers, Sequences, FiniteSets, TLC

VARIABLES
    framework,            \* DependencyMerger.framework (lower-cased text)
    observability,        \* DependencyMerger.observability
    has_safety_policies,  \* DependencyMerger.has_safety_policies
    user_requirements,    \* the caller's list of Requirement objects
    requirements_file,    \* the caller's requirements file: lines of text
    extra_dependencies,   \* the caller's extra dependency strings
    call,                 \* the arguments of the last merge call, as passed
    result,               \* what the last merge call returned or raised
    probe,                \* input of the last direct call of a pure function
    answer,               \* what that call returned or raised
    threads               \* the merge calls in progress on concurrent threads

vars == <<framework, observability, has_safety_policies, user_requirements,
          requirements_file, extra_dependencies, call, result, probe, answer, threads>>

(***************************************************************************)
(* Text helpers: the Python str operations the code relies on.             *)
(***************************************************************************)
Digits == <<"0", "1", "2", "3", "4", "5", "6", "7", "8", "9">>

DigitChars == {Digits[i] : i \in 1..10}

IsDigit(c) == c \in DigitChars

DigitVal(c) == (CHOOSE i \in 1..10 : Digits[i] = c) - 1

UpperCase == <<"A", "B", "C", "D", "E", "F", "G", "H", "I", "J", "K", "L", "M",
               "N", "O", "P", "Q", "R", "S", "T", "U", "V", "W", "X", "Y", "Z">>

LowerCase == <<"a", "b", "c", "d", "e", "f", "g", "h", "i", "j", "k", "l", "m",
               "n", "o", "p", "q", "r", "s", "t", "u", "v", "w", "x", "y", "z">>

UpperLetters == {UpperCase[i] : i \in 1..26}

LowerLetters == {LowerCase[i] : i \in 1..26}

IsUpper(c) == c \in UpperLetters

IsLower(c) == c \in LowerLetters

\* the lower-case letter of each upper-case letter
LowerOf == [c \in UpperLetters |-> LowerCase[CHOOSE i \in 1..26 : UpperCase[i] = c]]

\* str.lower() on one character
LowerChar(c) == IF IsUpper(c) THEN LowerOf[c] ELSE c

\* str.lower()
Lower(s) == [i \in 1..Len(s) |-> LowerChar(s[i])]

IsSpace(c) == c = " "

RECURSIVE LStrip(_)
LStrip(s) == IF s # <<>> /\ IsSpace(Head(s)) THEN LStrip(Tail(s)) ELSE s

RECURSIVE RStrip(_)
RStrip(s) == IF s # <<>> /\ IsSpace(s[Len(s)]) THEN RStrip(SubSeq(s, 1, Len(s) - 1)) ELSE s

\* str.strip()
Strip(s) == RStrip(LStrip(s))

\* str.startswith(p)
StartsWith(s, p) == Len(s) >= Len(p) /\ SubSeq(s, 1, Len(p)) = p

\* s[n:]
Drop(s, n) == SubSeq(s, n + 1, Len(s))

\* str.find(c) for a one-character c: the first index, 0 when absent
IndexOf(s, c) == IF \E i \in 1..Len(s) : s[i] = c
                 THEN CHOOSE i \in 1..Len(s) : s[i] = c /\ \A j \in 1..(i - 1) : s[j] # c
                 ELSE 0

\* str.split(c) for a one-character separator
RECURSIVE Split(_, _)
Split(s, c) == LET i == IndexOf(s, c)
               IN IF i = 0 THEN <<s>>
                  ELSE <<SubSeq(s, 1, i - 1)>> \o Split(Drop(s, i), c)

\* sep.join(parts)
RECURSIVE Join(_, _)
Join(parts, sep) == IF parts = <<>> THEN <<>>
                    ELSE IF Len(parts) = 1 THEN parts[1]
                    ELSE parts[1] \o sep \o Join(Tail(parts), sep)

\* str(n) for a non-negative int
RECURSIVE IntToStr(_)
IntToStr(n) == IF n < 10 THEN <<Digits[n + 1]>>
               ELSE IntToStr(n \div 10) \o <<Digits[(n % 10) + 1]>>

\* int(s) for a string of digits
RECURSIVE StrToInt(_)
StrToInt(s) == IF s = <<>> THEN 0
               ELSE 10 * StrToInt(SubSeq(s, 1, Len(s) - 1)) + DigitVal(s[Len(s)])

\* the longest prefix of s made of digits: what \d+ consumes
DigitRun(s) ==
    IF \A i \in 1..Len(s) : IsDigit(s[i]) THEN s
    ELSE SubSeq(s, 1, (CHOOSE i \in 1..Len(s) :
                          ~IsDigit(s[i]) /\ \A j \in 1..(i - 1) : IsDigit(s[j])) - 1)

\* the longest prefix of s made of non-digits
RECURSIVE NonDigitRun(_)
NonDigitRun(s) == IF s # <<>> /\ ~IsDigit(Head(s)) THEN <<Head(s)>> \o NonDigitRun(Tail(s)) ELSE <<>>

(***************************************************************************)
(* version.py: Version                                                     *)
(***************************************************************************)
\* Optional[str] = None and Optional[int] = None of the Version dataclass
NoTag == <<>>

NoNum == -1

Version(major, minor, patch, pre_release, pre_release_num) ==
    [major |-> major, minor |-> minor, patch |-> patch,
     pre_release |-> pre_release, pre_release_num |-> pre_release_num]

\* a variant of Version.__str__ that leaves out the patch number
VersionStrWithoutPatch(v) ==
    IntToStr(v.major) \o <<".">> \o IntToStr(v.minor)
    \o (IF v.pre_release # NoTag
        THEN v.pre_release
             \o (IF v.pre_release_num # NoNum /\ v.pre_release_num # 0
                 THEN IntToStr(v.pre_release_num) ELSE <<>>)
        ELSE <<>>)

\* Version.__str__
VersionStr(v) ==
    IntToStr(v.major) \o <<".">> \o IntToStr(v.minor) \o <<".">> \o IntToStr(v.patch)
    \o (IF v.pre_release # NoTag
        THEN v.pre_release
             \o (IF v.pre_release_num # NoNum /\ v.pre_release_num # 0
                 THEN IntToStr(v.pre_release_num) ELSE <<>>)
        ELSE <<>>)

\* a variant of Version.as_tuple that gives every pre-release tag the order 0
as_tuple_unordered_tags(v) ==
    LET pre_num == IF v.pre_release = NoTag \/ v.pre_release_num = NoNum
                   THEN 0 ELSE v.pre_release_num
    IN <<v.major, v.minor, v.patch, 0, pre_num>>

\* Version.as_tuple
as_tuple(v) ==
    LET pre_lower == Lower(v.pre_release)
        pre_order == IF v.pre_release = NoTag THEN 0
                     ELSE IF pre_lower \in {<<"a">>, <<"a", "l", "p", "h", "a">>} THEN -3
                     ELSE IF pre_lower \in {<<"b">>, <<"b", "e", "t", "a">>} THEN -2
                     ELSE IF pre_lower \in {<<"r", "c">>, <<"c">>} THEN -1
                     ELSE 0
        pre_num == IF v.pre_release = NoTag \/ v.pre_release_num = NoNum
                   THEN 0 ELSE v.pre_release_num
    IN <<v.major, v.minor, v.patch, pre_order, pre_num>>

\* Python's tuple comparison: lexicographic
RECURSIVE TupleLess(_, _)
TupleLess(a, b) == IF a = <<>> \/ b = <<>> THEN a = <<>> /\ b # <<>>
                   ELSE IF Head(a) # Head(b) THEN Head(a) < Head(b)
                   ELSE TupleLess(Tail(a), Tail(b))

\* Version.__lt__, __le__, __gt__, __ge__, __eq__
VersionLt(a, b) == TupleLess(as_tuple(a), as_tuple(b))

VersionEq(a, b) == as_tuple(a) = as_tuple(b)

VersionLe(a, b) == VersionLt(a, b) \/ VersionEq(a, b)

VersionGt(a, b) == TupleLess(as_tuple(b), as_tuple(a))

VersionGe(a, b) == VersionGt(a, b) \/ VersionEq(a, b)

(***************************************************************************)
(* version.py: parse_version                                               *)
(***************************************************************************)
\* the alternatives (a|b|rc|alpha|beta|c) of the pattern, matched with re.IGNORECASE
PreReleaseTags == {<<"a">>, <<"b">>, <<"r", "c">>, <<"a", "l", "p", "h", "a">>,
                   <<"b", "e", "t", "a">>, <<"c">>}

ParseFailed == [ok |-> FALSE, value |-> <<>>]

Parsed(v) == [ok |-> TRUE, value |-> v]

\* one optional group (?:\.(\d+))? at the head of s: <<digits matched, rest>>
DotNumber(s) ==
    IF Len(s) >= 2 /\ s[1] = "." /\ IsDigit(s[2])
    THEN <<DigitRun(Tail(s)), Drop(s, 1 + Len(DigitRun(Tail(s))))>>
    ELSE <<(<<>>), s>>

\* int(match.group(n)) if match.group(n) else default
GroupInt(group, default) == IF group # <<>> THEN StrToInt(group) ELSE default

\* the end of the pattern, (?:(a|b|rc|alpha|beta|c)(\d+)?)?$, on what follows the
\* numbers, with group 4 the non-digits it starts with and group 5 the rest
MatchPreRelease(g1, g2, g3, remainder, g4, g5) ==
    IF remainder = <<>>
    THEN Parsed(Version(StrToInt(g1), GroupInt(g2, 0), GroupInt(g3, 0), NoTag, NoNum))
    ELSE IF Lower(g4) \in PreReleaseTags /\ g5 = DigitRun(g5)
    THEN Parsed(Version(StrToInt(g1), GroupInt(g2, 0), GroupInt(g3, 0), g4, GroupInt(g5, NoNum)))
    ELSE ParseFailed

\* the third group of the pattern, (?:\.(\d+))?, matched as m3
MatchPatch(g1, g2, m3) ==
    MatchPreRelease(g1, g2, m3[1], m3[2], NonDigitRun(m3[2]),
                    Drop(m3[2], Len(NonDigitRun(m3[2]))))

\* the second group of the pattern, (?:\.(\d+))?, matched as m2
MatchMinor(g1, m2) == MatchPatch(g1, m2[1], DotNumber(m2[2]))

\* the first group of the pattern, ^(\d+), matched as g1
MatchMajor(s, g1) ==
    IF g1 = <<>> THEN ParseFailed ELSE MatchMinor(g1, DotNumber(Drop(s, Len(g1))))

\* parse_version: ^(\d+)(?:\.(\d+))?(?:\.(\d+))?(?:(a|b|rc|alpha|beta|c)(\d+)?)?$
\* on the stripped text, with re.IGNORECASE
parse_version(version_str) == MatchMajor(Strip(version_str), DigitRun(Strip(version_str)))

(***************************************************************************)
(* version.py: VersionOperator, VersionConstraint                          *)
(***************************************************************************)
VersionOperator == {"EQ", "NE", "GE", "GT", "LE", "LT", "COMPAT"}

\* VersionOperator.value
OperatorValue(op) ==
    CASE op = "EQ" -> <<"=", "=">>
      [] op = "NE" -> <<"!", "=">>
      [] op = "GE" -> <<">", "=">>
      [] op = "GT" -> <<">">>
      [] op = "LE" -> <<"<", "=">>
      [] op = "LT" -> <<"<">>
      [] op = "COMPAT" -> <<"~", "=">>

VersionConstraint(operator, version) == [operator |-> operator, version |-> version]

\* VersionConstraint.__str__
ConstraintStr(c) == OperatorValue(c.operator) \o VersionStr(c.version)

\* a variant of is_satisfied_by in which GT accepts the version of the constraint
is_satisfied_by_inclusive(c, version) ==
    CASE c.operator = "EQ" -> VersionEq(version, c.version)
      [] c.operator = "NE" -> ~VersionEq(version, c.version)
      [] c.operator = "GE" -> VersionGe(version, c.version)
      [] c.operator = "GT" -> VersionGe(version, c.version)
      [] c.operator = "LE" -> VersionLe(version, c.version)
      [] c.operator = "LT" -> VersionLt(version, c.version)
      [] c.operator = "COMPAT" ->
            IF VersionLt(version, c.version) THEN FALSE
            ELSE LET upper == IF c.version.patch > 0
                              THEN Version(c.version.major, c.version.minor + 1, 0, NoTag, NoNum)
                              ELSE Version(c.version.major + 1, 0, 0, NoTag, NoNum)
                 IN VersionLt(version, upper)

\* VersionConstraint.is_satisfied_by
is_satisfied_by(c, version) ==
    CASE c.operator = "EQ" -> VersionEq(version, c.version)
      [] c.operator = "NE" -> ~VersionEq(version, c.version)
      [] c.operator = "GE" -> VersionGe(version, c.version)
      [] c.operator = "GT" -> VersionGt(version, c.version)
      [] c.operator = "LE" -> VersionLe(version, c.version)
      [] c.operator = "LT" -> VersionLt(version, c.version)
      [] c.operator = "COMPAT" ->
            IF VersionLt(version, c.version) THEN FALSE
            ELSE LET upper == IF c.version.patch > 0
                              THEN Version(c.version.major, c.version.minor + 1, 0, NoTag, NoNum)
                              ELSE Version(c.version.major + 1, 0, 0, NoTag, NoNum)
                 IN VersionLt(version, upper)

\* sorted(VersionOperator, key=lambda x: -len(x.value)): a stable sort of the
\* declaration order EQ, NE, GE, GT, LE, LT, COMPAT by decreasing length
OperatorsLongestFirst == <<"EQ", "NE", "GE", "LE", "COMPAT", "GT", "LT">>

\* the first operator of OperatorsLongestFirst that the text starts with, 0 if none
FirstOperator(s) ==
    IF \E i \in 1..Len(OperatorsLongestFirst) : StartsWith(s, OperatorValue(OperatorsLongestFirst[i]))
    THEN CHOOSE i \in 1..Len(OperatorsLongestFirst) :
            /\ StartsWith(s, OperatorValue(OperatorsLongestFirst[i]))
            /\ \A j \in 1..(i - 1) : ~StartsWith(s, OperatorValue(OperatorsLongestFirst[j]))
    ELSE 0

\* VersionConstraint(operator=op, version=parse_version(version_part))
ConstraintOf(op, version) ==
    IF version.ok THEN Parsed(VersionConstraint(op, version.value)) ELSE ParseFailed

\* the body of parse_version_constraint, with i the operator the text starts with
ConstraintFrom(s, i) ==
    ConstraintOf(IF i = 0 THEN "EQ" ELSE OperatorsLongestFirst[i],
                 parse_version(IF i = 0 THEN s
                               ELSE Drop(s, Len(OperatorValue(OperatorsLongestFirst[i])))))

\* parse_version_constraint
parse_version_constraint(constraint_str) ==
    ConstraintFrom(Strip(constraint_str), FirstOperator(Strip(constraint_str)))

\* "if part: constraints.append(parse_version_constraint(part))", before the rest
AppendParsed(part, c, rest) ==
    IF part = <<>> THEN rest
    ELSE IF ~c.ok \/ ~rest.ok THEN ParseFailed
    ELSE Parsed(<<c.value>> \o rest.value)

\* the loop of parse_constraints over the comma-separated parts
RECURSIVE ParseParts(_)
ParseParts(parts) ==
    IF parts = <<>> THEN Parsed(<<>>)
    ELSE AppendParsed(Strip(Head(parts)), parse_version_constraint(Head(parts)),
                      ParseParts(Tail(parts)))

\* parse_constraints: raises ValueError (ParseFailed) when a part does not parse
parse_constraints(constraints_str) == ParseParts(Split(constraints_str, ","))

(***************************************************************************)
(* version.py: the range-overlap check                                     *)
(***************************************************************************)
\* Optional[Version]
None == [has |-> FALSE, v |-> Version(0, 0, 0, NoTag, NoNum)]

Some(v) == [has |-> TRUE, v |-> v]

\* a variant of the loop's iteration that keeps the lowest GE, GT or COMPAT
\* version as min_ver
RangeStepLowestMin(range, c) ==
    IF c.operator \in {"GE", "GT", "COMPAT"}
    THEN IF ~range.min_ver.has \/ VersionLt(c.version, range.min_ver.v)
         THEN [range EXCEPT !.min_ver = Some(c.version)] ELSE range
    ELSE IF c.operator \in {"LE", "LT"}
    THEN IF ~range.max_ver.has \/ VersionLt(c.version, range.max_ver.v)
         THEN [range EXCEPT !.max_ver = Some(c.version)] ELSE range
    ELSE IF c.operator = "EQ"
    THEN [min_ver |-> Some(c.version), max_ver |-> Some(c.version)]
    ELSE range

\* one iteration of the loop of _get_constraint_range
RangeStep(range, c) ==
    IF c.operator \in {"GE", "GT", "COMPAT"}
    THEN IF ~range.min_ver.has \/ VersionGt(c.version, range.min_ver.v)
         THEN [range EXCEPT !.min_ver = Some(c.version)] ELSE range
    ELSE IF c.operator \in {"LE", "LT"}
    THEN IF ~range.max_ver.has \/ VersionLt(c.version, range.max_ver.v)
         THEN [range EXCEPT !.max_ver = Some(c.version)] ELSE range
    ELSE IF c.operator = "EQ"
    THEN [min_ver |-> Some(c.version), max_ver |-> Some(c.version)]
    ELSE range

RECURSIVE RangeLoop(_, _)
RangeLoop(range, constraints) ==
    IF constraints = <<>> THEN range
    ELSE RangeLoop(RangeStep(range, Head(constraints)), Tail(constraints))

\* _get_constraint_range
get_constraint_range(constraints) ==
    RangeLoop([min_ver |-> None, max_ver |-> None], constraints)

\* constraints_are_compatible with ">=" for ">" in the overlap check: ranges that
\* touch in one version count as disjoint
constraints_are_compatible_touching(constraints1, constraints2) ==
    LET r1 == get_constraint_range(constraints1)
        r2 == get_constraint_range(constraints2)
    IN IF r1.min_ver.has /\ r2.max_ver.has /\ VersionGe(r1.min_ver.v, r2.max_ver.v) THEN FALSE
       ELSE IF r2.min_ver.has /\ r1.max_ver.has /\ VersionGe(r2.min_ver.v, r1.max_ver.v) THEN FALSE
       ELSE TRUE

\* constraints_are_compatible
constraints_are_compatible(constraints1, constraints2) ==
    LET r1 == get_constraint_range(constraints1)
        r2 == get_constraint_range(constraints2)
    IN IF r1.min_ver.has /\ r2.max_ver.has /\ VersionGt(r1.min_ver.v, r2.max_ver.v) THEN FALSE
       ELSE IF r2.min_ver.has /\ r1.max_ver.has /\ VersionGt(r2.min_ver.v, r1.max_ver.v) THEN FALSE
       ELSE TRUE

(***************************************************************************)
(* parser.py: Requirement, normalize_package_name                          *)
(***************************************************************************)
\* Optional[str] = None of Requirement.marker; "if self.marker" treats None and
\* the empty string alike
NoMarker == <<>>

Requirement(name, constraints, extras, marker, original) ==
    [name |-> name, constraints |-> constraints, extras |-> extras,
     marker |-> marker, original |-> original]

\* the character class [-_.]
SeparatorChars == {"-", "_", "."}

IsSeparator(c) == c \in SeparatorChars

\* re.sub(r"[-_.]+", "-", s): every run of separators becomes one hyphen
RECURSIVE CollapseSeparators(_)
CollapseSeparators(s) ==
    IF s = <<>> THEN <<>>
    ELSE IF IsSeparator(Head(s))
    THEN IF Len(s) >= 2 /\ IsSeparator(s[2])
         THEN CollapseSeparators(Tail(s))
         ELSE <<"-">> \o CollapseSeparators(Tail(s))
    ELSE <<Head(s)>> \o CollapseSeparators(Tail(s))

RECURSIVE StripHyphens(_)
StripHyphens(s) ==
    IF s # <<>> /\ Head(s) = "-" THEN StripHyphens(Tail(s))
    ELSE IF s # <<>> /\ s[Len(s)] = "-" THEN StripHyphens(SubSeq(s, 1, Len(s) - 1))
    ELSE s

\* a variant of normalize_package_name that keeps the case of the letters
normalize_package_name_case_kept(name) == StripHyphens(CollapseSeparators(name))

\* normalize_package_name
normalize_package_name(name) == StripHyphens(CollapseSeparators(Lower(name)))

\* Requirement.normalized_name
normalized_name(req) == normalize_package_name(req.name)

RECURSIVE ConstraintStrs(_)
ConstraintStrs(constraints) ==
    IF constraints = <<>> THEN <<>>
    ELSE <<ConstraintStr(Head(constraints))>> \o ConstraintStrs(Tail(constraints))

\* Requirement.to_pip_string
to_pip_string(req) ==
    req.name
    \o (IF req.extras # <<>> THEN <<"[">> \o Join(req.extras, <<",">>) \o <<"]">> ELSE <<>>)
    \o (IF req.constraints # <<>> THEN Join(ConstraintStrs(req.constraints), <<",">>) ELSE <<>>)
    \o (IF req.marker # NoMarker THEN <<";", " ">> \o req.marker ELSE <<>>)

(***************************************************************************)
(* parser.py: parse_requirement, parse_requirements_string                 *)
(***************************************************************************)
\* the character class [A-Za-z0-9]
AlnumChars == DigitChars \cup UpperLetters \cup LowerLetters

IsAlnum(c) == c \in AlnumChars

\* the character class [-A-Za-z0-9._]
NameChars == AlnumChars \cup SeparatorChars

IsNameChar(c) == c \in NameChars

\* the longest prefix of s made of name characters: what [-A-Za-z0-9._]* consumes
NameRun(s) ==
    IF \A i \in 1..Len(s) : IsNameChar(s[i]) THEN s
    ELSE SubSeq(s, 1, (CHOOSE i \in 1..Len(s) :
                          ~IsNameChar(s[i]) /\ \A j \in 1..(i - 1) : IsNameChar(s[j])) - 1)

\* where r"\[([^\]]+)\]" matches at position i of s: the index of the closing
\* bracket, 0 when the pattern does not match there
BracketEnd(s, i) ==
    IF s[i] = "[" /\ i + 1 <= Len(s) /\ s[i + 1] # "]"
       /\ \E j \in (i + 2)..Len(s) : s[j] = "]"
    THEN CHOOSE j \in (i + 2)..Len(s) : s[j] = "]" /\ \A k \in (i + 2)..(j - 1) : s[k] # "]"
    ELSE 0

\* re.search(r"\[([^\]]+)\]", s): the start of the leftmost match, 0 when none
BracketStart(s) ==
    IF \E i \in 1..Len(s) : BracketEnd(s, i) # 0
    THEN CHOOSE i \in 1..Len(s) : BracketEnd(s, i) # 0 /\ \A k \in 1..(i - 1) : BracketEnd(s, k) = 0
    ELSE 0

\* re.sub(r"\[[^\]]+\]", "", s): every match removed
RECURSIVE RemoveBrackets(_)
RemoveBrackets(s) ==
    LET i == BracketStart(s)
    IN IF i = 0 THEN s
       ELSE SubSeq(s, 1, i - 1) \o RemoveBrackets(Drop(s, BracketEnd(s, i)))

RECURSIVE StripEach(_)
StripEach(parts) == IF parts = <<>> THEN <<>> ELSE <<Strip(Head(parts))>> \o StripEach(Tail(parts))

\* "try: constraints.append(parse_version_constraint(part)) except ValueError: pass"
AppendValid(part, c, rest) == (IF part # <<>> /\ c.ok THEN <<c.value>> ELSE <<>>) \o rest

\* the loop over version_str.split(","): a part that raises ValueError is skipped
RECURSIVE ParseValidParts(_)
ParseValidParts(parts) ==
    IF parts = <<>> THEN <<>>
    ELSE AppendValid(Strip(Head(parts)), parse_version_constraint(Head(parts)),
                     ParseValidParts(Tail(parts)))

\* "Parse version constraints": the pattern ^(name)((?:==|!=|>=|<=|>|<|~=).*)?$
\* matches when nothing or an operator follows the name; otherwise only the name
\* is kept
ParseVersionConstraints(name, version_str, extras, marker, original) ==
    IF version_str # <<>> /\ FirstOperator(version_str) = 0
    THEN Parsed(Requirement(name, <<>>, extras, marker, original))
    ELSE Parsed(Requirement(name, ParseValidParts(Split(version_str, ",")),
                            extras, marker, original))

\* "Extract package name and version constraints"; None without a name
ParseName(req_str, extras, marker) ==
    IF req_str = <<>> \/ ~IsAlnum(Head(req_str)) THEN ParseFailed
    ELSE ParseVersionConstraints(NameRun(req_str), Drop(req_str, Len(NameRun(req_str))),
                                 extras, marker, req_str)

\* "Extract extras (in square brackets)", with b the start of the first bracket
ParseExtras(req_str, marker, b) ==
    IF b = 0 THEN ParseName(req_str, <<>>, marker)
    ELSE ParseName(RemoveBrackets(req_str),
                   StripEach(Split(SubSeq(req_str, b + 1, BracketEnd(req_str, b) - 1), ",")),
                   marker)

\* "Extract environment marker (after semicolon)", with semi the first semicolon
ParseMarker(req_str, semi) ==
    IF semi = 0 THEN ParseExtras(req_str, NoMarker, BracketStart(req_str))
    ELSE ParseExtras(Strip(SubSeq(req_str, 1, semi - 1)), Strip(Drop(req_str, semi)),
                     BracketStart(Strip(SubSeq(req_str, 1, semi - 1))))

\* "Skip empty lines and comments", "Skip -r, -e, --index-url, etc."
ParseLine(req_str) ==
    IF req_str = <<>> \/ Head(req_str) = "#" THEN ParseFailed
    ELSE IF Head(req_str) = "-" THEN ParseFailed
    ELSE ParseMarker(req_str, IndexOf(req_str, ";"))

\* parse_requirement: ParseFailed stands for the return value None
parse_requirement(req_str) == ParseLine(Strip(req_str))

\* a variant of the loop's body that appends what parse_requirement returned
\* without looking at it
AppendRequirementUnchecked(req, rest) == <<req.value>> \o rest

\* "if req: requirements.append(req)", before the rest
AppendRequirement(req, rest) == (IF req.ok THEN <<req.value>> ELSE <<>>) \o rest

\* parse_requirements_string over the lines of content.splitlines(): the inline
\* comment is cut off each line; parse_requirement returns None for an empty line
RECURSIVE parse_requirements_string(_)
parse_requirements_string(lines) ==
    IF lines = <<>> THEN <<>>
    ELSE AppendRequirement(parse_requirement(Split(Head(lines), "#")[1]),
                           parse_requirements_string(Tail(lines)))

\* parse_requirements_file: FileNotFoundError without the file, else the
\* Requirements of its lines
parse_requirements_file(file) ==
    IF ~file.exists THEN [raised |-> "FileNotFoundError"]
    ELSE [raised |-> "no", value |-> parse_requirements_string(file.lines)]

(***************************************************************************)
(* Ordered dictionaries (Python dict keeps insertion order): a sequence of *)
(* <<key, value>> pairs with distinct keys.                                *)
(***************************************************************************)
DictHas(d, k) == \E i \in 1..Len(d) : d[i][1] = k

\* d.get(k, default)
DictGet(d, k, default) ==
    IF DictHas(d, k) THEN d[CHOOSE i \in 1..Len(d) : d[i][1] = k][2] ELSE default

\* d[k] = v: an existing key keeps its position
DictPut(d, k, v) ==
    IF DictHas(d, k) THEN [i \in 1..Len(d) |-> IF d[i][1] = k THEN <<k, v>> ELSE d[i]]
    ELSE Append(d, <<k, v>>)

\* d.update(other)
RECURSIVE DictUpdate(_, _)
DictUpdate(d, other) ==
    IF other = <<>> THEN d
    ELSE DictUpdate(DictPut(d, Head(other)[1], Head(other)[2]), Tail(other))

DictKeys(d) == {d[i][1] : i \in 1..Len(d)}

(***************************************************************************)
(* resolver.py: the platform's dependency tables.  The pyproject.toml of   *)
(* the platform is not available, so the tables are the fallback values.   *)
(***************************************************************************)
pydantic == <<"p", "y", "d", "a", "n", "t", "i", "c">>

pyyaml == <<"p", "y", "y", "a", "m", "l">>

jinja2 == <<"j", "i", "n", "j", "a", "2">>

typer == <<"t", "y", "p", "e", "r">>

rich == <<"r", "i", "c", "h">>

requests == <<"r", "e", "q", "u", "e", "s", "t", "s">>

fastapi == <<"f", "a", "s", "t", "a", "p", "i">>

uvicorn == <<"u", "v", "i", "c", "o", "r", "n">>

httpx == <<"h", "t", "t", "p", "x">>

aiohttp == <<"a", "i", "o", "h", "t", "t", "p">>

langgraph == <<"l", "a", "n", "g", "g", "r", "a", "p", "h">>

langchain == <<"l", "a", "n", "g", "c", "h", "a", "i", "n">>

crewai == <<"c", "r", "e", "w", "a", "i">>

autogen == <<"a", "u", "t", "o", "g", "e", "n">>

pyautogen == <<"p", "y", "a", "u", "t", "o", "g", "e", "n">>

llamaindex == <<"l", "l", "a", "m", "a", "i", "n", "d", "e", "x">>

langfuse == <<"l", "a", "n", "g", "f", "u", "s", "e">>

langsmith == <<"l", "a", "n", "g", "s", "m", "i", "t", "h">>

regex == <<"r", "e", "g", "e", "x">>

dockrion == <<"d", "o", "c", "k", "r", "i", "o", "n">>

custom == <<"c", "u", "s", "t", "o", "m">>

prometheus_client == <<"p", "r", "o", "m", "e", "t", "h", "e", "u", "s", "-", "c", "l", "i", "e", "n", "t">>

langchain_core == <<"l", "a", "n", "g", "c", "h", "a", "i", "n", "-", "c", "o", "r", "e">>

crewai_tools == <<"c", "r", "e", "w", "a", "i", "-", "t", "o", "o", "l", "s">>

llama_index == <<"l", "l", "a", "m", "a", "-", "i", "n", "d", "e", "x">>

llama_index_core == <<"l", "l", "a", "m", "a", "-", "i", "n", "d", "e", "x", "-", "c", "o", "r", "e">>

\* _FALLBACK_CORE_DEPENDENCIES
CORE_DEPENDENCIES ==
    << <<pydantic, <<">", "=", "2", ".", "5">> >>,
       <<pyyaml, <<">", "=", "6", ".", "0">> >>,
       <<jinja2, <<">", "=", "3", ".", "1", ".", "0">> >>,
       <<typer, <<">", "=", "0", ".", "1", "2", ".", "0">> >>,
       <<rich, <<">", "=", "1", "3", ".", "7", ".", "0">> >>,
       <<requests, <<">", "=", "2", ".", "3", "1">> >> >>

\* _FALLBACK_RUNTIME_DEPENDENCIES
RUNTIME_DEPENDENCIES ==
    << <<fastapi, <<">", "=", "0", ".", "1", "0", "9", ".", "0">> >>,
       <<uvicorn, <<">", "=", "0", ".", "2", "7", ".", "0">> >>,
       <<prometheus_client, <<">", "=", "0", ".", "2", "0">> >>,
       <<httpx, <<">", "=", "0", ".", "2", "6", ".", "0">> >>,
       <<aiohttp, <<">", "=", "3", ".", "9", ".", "0">> >> >>

\* _FALLBACK_FRAMEWORK_DEPENDENCIES: framework -> {package: constraint}
FRAMEWORK_DEPENDENCIES ==
    << <<langgraph, << <<langgraph, <<">", "=", "0", ".", "0", ".", "2", "0">> >>,
                       <<langchain_core, <<">", "=", "0", ".", "1", ".", "0">> >> >> >>,
       <<langchain, << <<langchain, <<">", "=", "0", ".", "1", ".", "0">> >>,
                       <<langchain_core, <<">", "=", "0", ".", "1", ".", "0">> >> >> >>,
       <<crewai, << <<crewai, <<">", "=", "0", ".", "2", "8", ".", "0">> >>,
                    <<crewai_tools, <<">", "=", "0", ".", "2", ".", "0">> >> >> >>,
       <<autogen, << <<pyautogen, <<">", "=", "0", ".", "2", ".", "0">> >> >> >>,
       <<llamaindex, << <<llama_index, <<">", "=", "0", ".", "1", "0", ".", "0">> >>,
                        <<llama_index_core, <<">", "=", "0", ".", "1", "0", ".", "0">> >> >> >> >>

OPTIONAL_DEPENDENCIES ==
    << <<langfuse, <<">", "=", "2", ".", "0", ".", "0">> >>,
       <<langsmith, <<">", "=", "0", ".", "1", ".", "0">> >>,
       <<regex, <<">", "=", "2", "0", "2", "3", ".", "1", "2", ".", "0">> >> >>

(***************************************************************************)
(* resolver.py: VersionResolver                                            *)
(***************************************************************************)
\* DependencyType
DependencyType == {"core", "runtime", "framework", "optional", "user"}

\* ConflictResolution
ConflictResolution == {"user_override", "dockrion_wins", "merged", "error"}

\* None where the code passes or stores None instead of a text
NoneText == <<"None">>

\* the loops of _build_dockrion_deps: dockrion_deps[normalize(pkg)] = (constraint, type)
RECURSIVE AddDeps(_, _, _)
AddDeps(deps, table, type) ==
    IF table = <<>> THEN deps
    ELSE AddDeps(DictPut(deps, normalize_package_name(Head(table)[1]), <<Head(table)[2], type>>),
                 Tail(table), type)

\* "if self.framework and self.framework in FRAMEWORK_DEPENDENCIES: ..."
AddFrameworkDeps(deps, resolver_framework) ==
    IF resolver_framework # NoneText /\ DictHas(FRAMEWORK_DEPENDENCIES, resolver_framework)
    THEN AddDeps(deps, DictGet(FRAMEWORK_DEPENDENCIES, resolver_framework, <<>>), "framework")
    ELSE deps

\* VersionResolver.__init__ and _build_dockrion_deps, for VersionResolver(framework=fw)
build_dockrion_deps(fw) ==
    AddDeps(AddFrameworkDeps(AddDeps(AddDeps(<<>>, CORE_DEPENDENCIES, "core"),
                                     RUNTIME_DEPENDENCIES, "runtime"),
                             IF fw # <<>> THEN Lower(fw) ELSE NoneText),
            OPTIONAL_DEPENDENCIES, "optional")

\* "if normalized in self.dockrion_deps: return self.dockrion_deps[normalized][1]"
TypeOf(dockrion_deps, normalized) ==
    IF DictHas(dockrion_deps, normalized)
    THEN DictGet(dockrion_deps, normalized, <<>>)[2]
    ELSE "user"

\* VersionResolver.get_dependency_type
get_dependency_type(dockrion_deps, package) ==
    TypeOf(dockrion_deps, normalize_package_name(package))

\* ResolvedDependency
ResolvedDependency(package, constraint, resolution, source, original_user, original_dockrion) ==
    [raised |-> "no", package |-> package, constraint |-> constraint,
     resolution |-> resolution, source |-> source,
     original_user |-> original_user, original_dockrion |-> original_dockrion]

\* DependencyConflictError
DependencyConflictError(package, user_constraint, dockrion_constraint, message, resolution_hints) ==
    [raised |-> "DependencyConflictError", package |-> package,
     user_constraint |-> user_constraint, dockrion_constraint |-> dockrion_constraint,
     message |-> message, resolution_hints |-> resolution_hints]

\* the ValueError of parse_version, which nothing on the way catches
ValueError == [raised |-> "ValueError"]

\* "return constraints_are_compatible(user_constraints, dockrion_constraints)";
\* ParseFailed when parse_constraints raised
CompatibleWith(user_constraints, dockrion_constraints) ==
    IF ~dockrion_constraints.ok THEN ParseFailed
    ELSE Parsed(constraints_are_compatible(user_constraints, dockrion_constraints.value))

\* VersionResolver._check_compatibility
check_compatibility(user_constraints, dockrion_constraint_str) ==
    CompatibleWith(user_constraints, parse_constraints(dockrion_constraint_str))

\* resolve, "if compatible: ... else: ...", without the branch that raises: an
\* incompatible Core or Runtime requirement is resolved like a Framework one
ResolveCheckedWithoutError(user_req, pip, original_dockrion, dep_type, dockrion_constraint, compatible) ==
    IF ~compatible.ok THEN ValueError
    ELSE IF compatible.value
    THEN ResolvedDependency(user_req.name, pip, "user_override", "user", pip, original_dockrion)
    ELSE IF dep_type \in {"core", "runtime", "framework"}
    THEN ResolvedDependency(user_req.name, user_req.name \o dockrion_constraint,
                            "dockrion_wins", "dockrion", pip, original_dockrion)
    ELSE ResolvedDependency(user_req.name, pip, "user_override", "user", pip, original_dockrion)

\* resolve, "if compatible: ... else: ...", with the Framework category among the
\* critical ones: an incompatible Framework requirement raises too
ResolveCheckedFrameworkCritical(user_req, pip, original_dockrion, dep_type, dockrion_constraint, compatible) ==
    IF ~compatible.ok THEN ValueError
    ELSE IF compatible.value
    THEN ResolvedDependency(user_req.name, pip, "user_override", "user", pip, original_dockrion)
    ELSE IF dep_type \in {"core", "runtime", "framework"}
    THEN DependencyConflictError(
             user_req.name, pip, original_dockrion,
             <<"This is a ", (IF dep_type = "core" THEN "core" ELSE "runtime"),
               " dockrion dependency. The version you specified is not compatible with dockrion's requirements.">>,
             << <<"Update your requirement to satisfy ">> \o dockrion_constraint,
                <<"Remove the version constraint to use dockrion's default">>,
                <<"Check dockrion's compatibility matrix for supported versions">> >>)
    ELSE ResolvedDependency(user_req.name, pip, "user_override", "user", pip, original_dockrion)

\* resolve, "if compatible: ... else: ...", with pip = user_req.to_pip_string() and
\* original_dockrion = f"{normalized_name}{dockrion_constraint}"
ResolveChecked(user_req, pip, original_dockrion, dep_type, dockrion_constraint, compatible) ==
    IF ~compatible.ok THEN ValueError
    ELSE IF compatible.value
    THEN ResolvedDependency(user_req.name, pip, "user_override", "user", pip, original_dockrion)
    ELSE IF dep_type \in {"core", "runtime"}
    THEN DependencyConflictError(
             user_req.name, pip, original_dockrion,
             <<"This is a ", (IF dep_type = "core" THEN "core" ELSE "runtime"),
               " dockrion dependency. The version you specified is not compatible with dockrion's requirements.">>,
             << <<"Update your requirement to satisfy ">> \o dockrion_constraint,
                <<"Remove the version constraint to use dockrion's default">>,
                <<"Check dockrion's compatibility matrix for supported versions">> >>)
    ELSE IF dep_type = "framework"
    THEN ResolvedDependency(user_req.name, user_req.name \o dockrion_constraint,
                            "dockrion_wins", "dockrion", pip, original_dockrion)
    ELSE ResolvedDependency(user_req.name, pip, "user_override", "user", pip, original_dockrion)

\* resolve without the branch "User didn't specify version, use dockrion's": a
\* requirement without constraints goes through the compatibility check
ResolveTypedWithoutDefault(user_req, pip, name, dep_type, dockrion_constraint) ==
    IF dep_type = "user" \/ dockrion_constraint = NoneText
    THEN ResolvedDependency(user_req.name, pip, "user_override", "user", pip, NoneText)
    ELSE ResolveChecked(user_req, pip, name \o dockrion_constraint, dep_type, dockrion_constraint,
                        check_compatibility(user_req.constraints, dockrion_constraint))

\* resolve, from "if dep_type == DependencyType.USER" to "Check compatibility"
ResolveTyped(user_req, pip, name, dep_type, dockrion_constraint) ==
    IF dep_type = "user" \/ dockrion_constraint = NoneText
    THEN ResolvedDependency(user_req.name, pip, "user_override", "user", pip, NoneText)
    ELSE IF Join(ConstraintStrs(user_req.constraints), <<",">>) = <<>>
    THEN ResolvedDependency(user_req.name, user_req.name \o dockrion_constraint,
                            "dockrion_wins", "dockrion", pip, name \o dockrion_constraint)
    ELSE ResolveChecked(user_req, pip, name \o dockrion_constraint, dep_type, dockrion_constraint,
                        check_compatibility(user_req.constraints, dockrion_constraint))

\* resolve, with name = user_req.normalized_name
ResolveNamed(dockrion_deps, user_req, dockrion_constraint, name, pip) ==
    ResolveTyped(user_req, pip, name, get_dependency_type(dockrion_deps, name),
                 IF dockrion_constraint = NoneText
                 THEN DictGet(dockrion_deps, name, <<NoneText, NoneText>>)[1]
                 ELSE dockrion_constraint)

\* VersionResolver.resolve: the ResolvedDependency it returns or the exception it raises
resolve(dockrion_deps, user_req, dockrion_constraint) ==
    ResolveNamed(dockrion_deps, user_req, dockrion_constraint,
                 normalized_name(user_req), to_pip_string(user_req))

(***************************************************************************)
(* merger.py: DependencyMerger                                             *)
(***************************************************************************)
\* get_dockrion_version(): the fallback version, without a pyproject.toml
DockrionVersion == <<"0", ".", "0", ".", "1">>

\* DOCKRION_META_PACKAGE = f"dockrion>={version}"
DOCKRION_META_PACKAGE == dockrion \o <<">", "=">> \o DockrionVersion

\* DependencyMerger.__init__: self.framework
MergerFramework(fw) == IF fw # <<>> THEN Lower(fw) ELSE custom

\* get_dockrion_requirements without the framework's table
UpdateFrameworkSkipped(deps, fw) == deps

\* "if self.framework in FRAMEWORK_DEPENDENCIES: deps.update(...)"
UpdateFramework(deps, fw) ==
    IF DictHas(FRAMEWORK_DEPENDENCIES, fw)
    THEN DictUpdate(deps, DictGet(FRAMEWORK_DEPENDENCIES, fw, <<>>))
    ELSE deps

\* the Optional package added whatever its flag
PutOptionalUnconditional(deps, enabled, pkg) ==
    DictPut(deps, pkg, DictGet(OPTIONAL_DEPENDENCIES, pkg, <<>>))

\* "if <enabled>: deps[pkg] = OPTIONAL_DEPENDENCIES[pkg]"
PutOptional(deps, enabled, pkg) ==
    IF enabled THEN DictPut(deps, pkg, DictGet(OPTIONAL_DEPENDENCIES, pkg, <<>>)) ELSE deps

\* DependencyMerger.get_dockrion_requirements
get_dockrion_requirements(fw, obs, safety) ==
    PutOptional(
        PutOptional(
            PutOptional(
                UpdateFramework(DictUpdate(DictUpdate(<<>>, CORE_DEPENDENCIES),
                                           RUNTIME_DEPENDENCIES), fw),
                obs.langfuse, langfuse),
            obs.langsmith, langsmith),
        safety, regex)

\* the loop over extra_dependencies: parse_requirement of each, None dropped
RECURSIVE ParseExtraDependencies(_)
ParseExtraDependencies(strs) ==
    IF strs = <<>> THEN <<>>
    ELSE AppendRequirement(parse_requirement(Head(strs)), ParseExtraDependencies(Tail(strs)))

\* all_user_reqs: the explicit list, then the file's requirements, then the extras
CollectUserReqs(reqs, file, extras) ==
    reqs
    \o (IF file.exists THEN parse_requirements_string(file.lines) ELSE <<>>)
    \o ParseExtraDependencies(extras)

\* "for extra in req.extras: if extra not in existing.extras: existing.extras.append(extra)"
RECURSIVE ExtendExtras(_, _)
ExtendExtras(existing, extras) ==
    IF extras = <<>> THEN existing
    ELSE ExtendExtras(IF \E i \in 1..Len(existing) : existing[i] = Head(extras)
                      THEN existing ELSE Append(existing, Head(extras)),
                      Tail(extras))

\* the body of the duplicate branch: the existing Requirement object is changed in place
MergeDuplicate(existing, req) ==
    [existing EXCEPT !.constraints = existing.constraints \o req.constraints,
                     !.extras = ExtendExtras(existing.extras, req.extras)]

\* one iteration of the loop with "user_req_map[normalized] = req" in both
\* branches: a later declaration replaces an earlier one
PutUserReqOverwriting(map, req, normalized) == DictPut(map, normalized, req)

\* one iteration of "for req in all_user_reqs", with normalized = req.normalized_name
PutUserReq(map, req, normalized) ==
    IF DictHas(map, normalized)
    THEN DictPut(map, normalized, MergeDuplicate(DictGet(map, normalized, <<>>), req))
    ELSE DictPut(map, normalized, req)

\* the loop that builds user_req_map, over all_user_reqs[i..]
RECURSIVE BuildUserReqMap(_, _)
BuildUserReqMap(map, all_user_reqs) ==
    IF all_user_reqs = <<>> THEN map
    ELSE BuildUserReqMap(PutUserReq(map, Head(all_user_reqs),
                                    normalized_name(Head(all_user_reqs))),
                         Tail(all_user_reqs))

\* The caller's Requirement objects after the loop: user_req_map holds the object
\* of the first declaration of each package itself, so that object carries the
\* constraints and extras of the later declarations; the others are untouched.
CallerObjectsAfter(reqs, map) ==
    [i \in 1..Len(reqs) |->
        IF \A j \in 1..(i - 1) : normalized_name(reqs[j]) # normalized_name(reqs[i])
        THEN DictGet(map, normalized_name(reqs[i]), <<>>)
        ELSE reqs[i]]

\* MergeResult
MergeResult(requirements, resolutions, warnings, user_overrides, dockrion_versions) ==
    [raised |-> "no", requirements |-> requirements, resolutions |-> resolutions,
     warnings |-> warnings, user_overrides |-> user_overrides,
     dockrion_versions |-> dockrion_versions]

\* the locals of merge that its loops change
MergeLocals(merge_result, processed, final_requirements) ==
    [result |-> merge_result, processed |-> processed,
     final_requirements |-> final_requirements, raised |-> [raised |-> "no"]]

\* the branch "if dockrion_constraint:" with final_requirements given the
\* platform's string (resolved.original_dockrion) for resolved.constraint
RecordResolvedPlatformString(m, normalized, dockrion_constraint, resolved) ==
    IF resolved.raised # "no" THEN [m EXCEPT !.raised = resolved]
    ELSE [m EXCEPT
            !.result.resolutions = DictPut(m.result.resolutions, normalized, resolved),
            !.result.user_overrides =
                IF resolved.resolution = "user_override"
                THEN Append(m.result.user_overrides, resolved.package)
                ELSE m.result.user_overrides,
            !.result.dockrion_versions =
                IF resolved.resolution = "dockrion_wins"
                THEN Append(m.result.dockrion_versions, resolved.package)
                ELSE m.result.dockrion_versions,
            !.result.warnings =
                IF resolved.resolution = "dockrion_wins"
                THEN Append(m.result.warnings,
                            <<"Using dockrion's version for ">> \o resolved.package
                            \o <<": ">> \o dockrion_constraint
                            \o <<" (you specified ">> \o resolved.original_user \o <<")">>)
                ELSE m.result.warnings,
            !.final_requirements = Append(m.final_requirements, resolved.original_dockrion),
            !.processed = m.processed \cup {normalized}]

\* the branch "if dockrion_constraint:" with the warning appended for
\* USER_OVERRIDE as well as for DOCKRION_WINS
RecordResolvedWarningAlways(m, normalized, dockrion_constraint, resolved) ==
    IF resolved.raised # "no" THEN [m EXCEPT !.raised = resolved]
    ELSE [m EXCEPT
            !.result.resolutions = DictPut(m.result.resolutions, normalized, resolved),
            !.result.user_overrides =
                IF resolved.resolution = "user_override"
                THEN Append(m.result.user_overrides, resolved.package)
                ELSE m.result.user_overrides,
            !.result.dockrion_versions =
                IF resolved.resolution = "dockrion_wins"
                THEN Append(m.result.dockrion_versions, resolved.package)
                ELSE m.result.dockrion_versions,
            !.result.warnings =
                Append(m.result.warnings,
                       <<"Using dockrion's version for ">> \o resolved.package
                       \o <<": ">> \o dockrion_constraint
                       \o <<" (you specified ">> \o resolved.original_user \o <<")">>),
            !.final_requirements = Append(m.final_requirements, resolved.constraint),
            !.processed = m.processed \cup {normalized}]

\* the branch "if dockrion_constraint:" without the warning of DOCKRION_WINS
RecordResolvedWithoutWarning(m, normalized, dockrion_constraint, resolved) ==
    IF resolved.raised # "no" THEN [m EXCEPT !.raised = resolved]
    ELSE [m EXCEPT
            !.result.resolutions = DictPut(m.result.resolutions, normalized, resolved),
            !.result.user_overrides =
                IF resolved.resolution = "user_override"
                THEN Append(m.result.user_overrides, resolved.package)
                ELSE m.result.user_overrides,
            !.result.dockrion_versions =
                IF resolved.resolution = "dockrion_wins"
                THEN Append(m.result.dockrion_versions, resolved.package)
                ELSE m.result.dockrion_versions,
            !.final_requirements = Append(m.final_requirements, resolved.constraint),
            !.processed = m.processed \cup {normalized}]

\* the branch "if dockrion_constraint:" of the loop over user_req_map, with
\* resolved = self.resolver.resolve(user_req, dockrion_constraint); an exception
\* of resolve leaves the locals as they are
RecordResolved(m, normalized, dockrion_constraint, resolved) ==
    IF resolved.raised # "no" THEN [m EXCEPT !.raised = resolved]
    ELSE [m EXCEPT
            !.result.resolutions = DictPut(m.result.resolutions, normalized, resolved),
            !.result.user_overrides =
                IF resolved.resolution = "user_override"
                THEN Append(m.result.user_overrides, resolved.package)
                ELSE m.result.user_overrides,
            !.result.dockrion_versions =
                IF resolved.resolution = "dockrion_wins"
                THEN Append(m.result.dockrion_versions, resolved.package)
                ELSE m.result.dockrion_versions,
            !.result.warnings =
                IF resolved.resolution = "dockrion_wins"
                THEN Append(m.result.warnings,
                            <<"Using dockrion's version for ">> \o resolved.package
                            \o <<": ">> \o dockrion_constraint
                            \o <<" (you specified ">> \o resolved.original_user \o <<")">>)
                ELSE m.result.warnings,
            !.final_requirements = Append(m.final_requirements, resolved.constraint),
            !.processed = m.processed \cup {normalized}]

\* the branch "User-only package" without the entry of result.resolutions
RecordUserOnlyUnresolved(m, normalized, user_req, pip) ==
    [m EXCEPT
        !.final_requirements = Append(m.final_requirements, pip),
        !.processed = m.processed \cup {normalized}]

\* the branch "User-only package", with pip = user_req.to_pip_string()
RecordUserOnly(m, normalized, user_req, pip) ==
    [m EXCEPT
        !.final_requirements = Append(m.final_requirements, pip),
        !.result.resolutions =
            DictPut(m.result.resolutions, normalized,
                    ResolvedDependency(user_req.name, pip, "user_override", "user", pip, NoneText)),
        !.processed = m.processed \cup {normalized}]

\* one iteration of "for normalized_name, user_req in user_req_map.items()", with
\* dockrion_constraint = dockrion_reqs.get(normalized_name)
ProcessUserReq(dockrion_deps, m, normalized, user_req, dockrion_constraint) ==
    IF dockrion_constraint # NoneText /\ dockrion_constraint # <<>>
    THEN RecordResolved(m, normalized, dockrion_constraint,
                        resolve(dockrion_deps, user_req, dockrion_constraint))
    ELSE RecordUserOnly(m, normalized, user_req, to_pip_string(user_req))

\* "for normalized_name, user_req in user_req_map.items()": an exception ends the loop
RECURSIVE ProcessUserReqs(_, _, _, _)
ProcessUserReqs(dockrion_deps, dockrion_reqs, m, user_req_map) ==
    IF user_req_map = <<>> \/ m.raised.raised # "no" THEN m
    ELSE ProcessUserReqs(dockrion_deps, dockrion_reqs,
                         ProcessUserReq(dockrion_deps, m,
                                        Head(user_req_map)[1], Head(user_req_map)[2],
                                        DictGet(dockrion_reqs, Head(user_req_map)[1], NoneText)),
                         Tail(user_req_map))

\* the body of "if normalized not in processed:" without
\* "result.dockrion_versions.append(pkg_name)"
RecordDockrionReqUnlisted(m, pkg_name, normalized, req_str) ==
    [m EXCEPT
        !.final_requirements = Append(m.final_requirements, req_str),
        !.result.resolutions =
            DictPut(m.result.resolutions, normalized,
                    ResolvedDependency(pkg_name, req_str, "dockrion_wins", "dockrion",
                                       NoneText, req_str)),
        !.processed = m.processed \cup {normalized}]

\* the body of "if normalized not in processed:" in the loop over dockrion_reqs
RecordDockrionReq(m, pkg_name, normalized, req_str) ==
    [m EXCEPT
        !.final_requirements = Append(m.final_requirements, req_str),
        !.result.resolutions =
            DictPut(m.result.resolutions, normalized,
                    ResolvedDependency(pkg_name, req_str, "dockrion_wins", "dockrion",
                                       NoneText, req_str)),
        !.result.dockrion_versions = Append(m.result.dockrion_versions, pkg_name),
        !.processed = m.processed \cup {normalized}]

\* one iteration of the loop over dockrion_reqs without the test
\* "if normalized not in processed"
AddDockrionReqUnchecked(m, pkg_name, constraint, normalized) ==
    RecordDockrionReq(m, pkg_name, normalized, pkg_name \o constraint)

\* one iteration of "for pkg_name, constraint in dockrion_reqs.items()", with
\* normalized = normalize_package_name(pkg_name)
AddDockrionReq(m, pkg_name, constraint, normalized) ==
    IF normalized \notin m.processed
    THEN RecordDockrionReq(m, pkg_name, normalized, pkg_name \o constraint)
    ELSE m

\* "for pkg_name, constraint in dockrion_reqs.items()"
RECURSIVE AddDockrionReqs(_, _)
AddDockrionReqs(m, dockrion_reqs) ==
    IF dockrion_reqs = <<>> THEN m
    ELSE AddDockrionReqs(AddDockrionReq(m, Head(dockrion_reqs)[1], Head(dockrion_reqs)[2],
                                        normalize_package_name(Head(dockrion_reqs)[1])),
                         Tail(dockrion_reqs))

\* the meta-package added without the test "if dockrion_normalized not in processed"
AddMetaPackageUnchecked(m, dockrion_normalized) ==
    RecordDockrionReq(m, dockrion, dockrion_normalized, DOCKRION_META_PACKAGE)

\* "Add dockrion meta-package if user didn't specify it", with
\* dockrion_normalized = normalize_package_name("dockrion")
AddMetaPackage(m, dockrion_normalized) ==
    IF dockrion_normalized \notin m.processed
    THEN RecordDockrionReq(m, dockrion, dockrion_normalized, DOCKRION_META_PACKAGE)
    ELSE m

\* "result.requirements = final_requirements; return result"
MergeReturn(m) == [m.result EXCEPT !.requirements = m.final_requirements]

\* merge after the loop over user_req_map: the exception of resolve leaves merge,
\* otherwise the platform's requirements and the meta-package are added
MergeFinish(m, dockrion_reqs) ==
    IF m.raised.raised # "no" THEN m.raised
    ELSE MergeReturn(AddMetaPackage(AddDockrionReqs(m, dockrion_reqs),
                                    normalize_package_name(dockrion)))

\* merge from "Get dockrion requirements" on
MergeFrom(fw, dockrion_reqs, user_req_map) ==
    MergeFinish(ProcessUserReqs(build_dockrion_deps(fw), dockrion_reqs,
                                MergeLocals(MergeResult(<<>>, <<>>, <<>>, <<>>, <<>>), {}, <<>>),
                                user_req_map),
                dockrion_reqs)

\* DependencyMerger.merge: what it returns (a MergeResult) or raises
merge(fw, obs, safety, reqs, file, extras) ==
    MergeFrom(fw, get_dockrion_requirements(fw, obs, safety),
              BuildUserReqMap(<<>>, CollectUserReqs(reqs, file, extras)))

\* DependencyMerger.merge: the caller's Requirement objects when it returns or raises
merge_caller_objects(reqs, file, extras) ==
    CallerObjectsAfter(reqs, BuildUserReqMap(<<>>, CollectUserReqs(reqs, file, extras)))

(***************************************************************************)
(* The caller: a DependencyMerger is constructed, the caller declares      *)
(* requirements in the three sources of merge (explicit Requirement        *)
(* objects, lines of a requirements file, extra dependency strings) and    *)
(* calls merge.  The declarations are drawn from the pools below.          *)
(***************************************************************************)
\* the most declarations a caller makes, over the three sources together
MaxDeclarations == 2

\* the most merge calls a caller makes
MaxCalls == 2

\* the framework argument of DependencyMerger(...) and VersionResolver(...):
\* "" (the default applies), langgraph in two spellings
FrameworkArgs == {<<>>, langgraph, <<"L", "a", "n", "g", "G", "r", "a", "p", "h">>}

\* Requirement objects the caller builds itself: pydantic==1.0.0,
\* fastapi>=0.110.0, langfuse[otel]<1.0.0, pydantic[email]; python_version<'3.9'
\* and dockrion[langgraph]>=0.0.2
RequirementPool ==
    { Requirement(pydantic, <<VersionConstraint("EQ", Version(1, 0, 0, NoTag, NoNum))>>,
                  <<>>, NoMarker, <<>>),
      Requirement(fastapi, <<VersionConstraint("GE", Version(0, 110, 0, NoTag, NoNum))>>,
                  <<>>, NoMarker, <<>>),
      Requirement(langfuse, <<VersionConstraint("LT", Version(1, 0, 0, NoTag, NoNum))>>,
                  <<<<"o", "t", "e", "l">>>>, NoMarker, <<>>),
      Requirement(pydantic, <<>>, <<<<"e", "m", "a", "i", "l">>>>, <<"p", "y", "t", "h", "o", "n", "_", "v", "e", "r", "s", "i", "o", "n", "<", "'", "3", ".", "9", "'">>, <<>>),
      Requirement(dockrion, <<VersionConstraint("GE", Version(0, 0, 2, NoTag, NoNum))>>,
                  <<langgraph>>, NoMarker, <<>>) }

\* lines of the requirements file: pydantic>=2.6, Pydantic<3,
\* "Pkg_Name[a]<2  # pinned" and pkg-name[b,a]>=1.0
FileLinePool ==
    { <<"p", "y", "d", "a", "n", "t", "i", "c", ">", "=", "2", ".", "6">>,
      <<"P", "y", "d", "a", "n", "t", "i", "c", "<", "3">>,
      <<"P", "k", "g", "_", "N", "a", "m", "e", "[", "a", "]", "<", "2", " ", " ", "#", " ", "p", "i", "n", "n", "e", "d">>,
      <<"p", "k", "g", "-", "n", "a", "m", "e", "[", "b", ",", "a", "]", ">", "=", "1", ".", "0">> }

\* extra dependency strings (the dependencies of the Dockfile)
ExtraDependencyPool ==
    { <<"l", "a", "n", "g", "f", "u", "s", "e", ">", "=", "1", ".", "0", ".", "0">>,
      <<"f", "a", "s", "t", "a", "p", "i", "<", "0", ".", "1">>,
      <<"L", "a", "n", "g", "G", "r", "a", "p", "h", "=", "=", "0", ".", "0", ".", "1">>,
      <<"d", "o", "c", "k", "r", "i", "o", "n">> }

\* no call of merge yet; afterwards the arguments of the last call, as they were
\* when it was made, and the list all_user_reqs that merge collected from them
NoCall == [count |-> 0, user_requirements |-> <<>>,
           requirements_file |-> [exists |-> FALSE, lines |-> <<>>],
           extra_dependencies |-> <<>>, all_user_reqs |-> <<>>]

NoResult == [raised |-> "none"]

NoProbe == [fn |-> "none"]

Declarations == Len(user_requirements) + Len(requirements_file.lines) + Len(extra_dependencies)

\* the arguments of DependencyMerger(framework, observability, has_safety_policies):
\* the defaults, a framework with and without langfuse, and every option at once
\* with the framework spelled LangGraph
MergerArgs ==
    { [framework |-> <<>>, observability |-> [langfuse |-> FALSE, langsmith |-> FALSE],
       has_safety_policies |-> FALSE],
      [framework |-> langgraph, observability |-> [langfuse |-> FALSE, langsmith |-> FALSE],
       has_safety_policies |-> TRUE],
      [framework |-> langgraph, observability |-> [langfuse |-> TRUE, langsmith |-> FALSE],
       has_safety_policies |-> FALSE],
      [framework |-> <<"L", "a", "n", "g", "G", "r", "a", "p", "h">>, observability |-> [langfuse |-> TRUE, langsmith |-> TRUE],
       has_safety_policies |-> TRUE] }

\* DependencyMerger(framework, observability, has_safety_policies)
Init ==
    /\ \E args \in MergerArgs :
          /\ framework = MergerFramework(args.framework)
          /\ observability = args.observability
          /\ has_safety_policies = args.has_safety_policies
    /\ user_requirements = <<>>
    /\ requirements_file = [exists |-> FALSE, lines |-> <<>>]
    /\ extra_dependencies = <<>>
    /\ call = NoCall
    /\ result = NoResult
    /\ probe = NoProbe
    /\ answer = NoResult
    /\ threads = <<>>

\* the caller appends a Requirement object to its list
DeclareRequirement ==
    /\ call.count = 0
    /\ Declarations < MaxDeclarations
    /\ \E req \in RequirementPool : user_requirements' = Append(user_requirements, req)
    /\ UNCHANGED <<threads, framework, observability, has_safety_policies, requirements_file,
                   extra_dependencies, call, result, probe, answer>>

\* the caller writes a line to the requirements file (creating the file)
WriteFileLine ==
    /\ call.count = 0
    /\ Declarations < MaxDeclarations
    /\ \E line \in FileLinePool :
          requirements_file' = [exists |-> TRUE, lines |-> Append(requirements_file.lines, line)]
    /\ UNCHANGED <<threads, framework, observability, has_safety_policies, user_requirements,
                   extra_dependencies, call, result, probe, answer>>

\* the caller adds an extra dependency string
DeclareExtraDependency ==
    /\ call.count = 0
    /\ Declarations < MaxDeclarations
    /\ \E dep \in ExtraDependencyPool : extra_dependencies' = Append(extra_dependencies, dep)
    /\ UNCHANGED <<threads, framework, observability, has_safety_policies, user_requirements,
                   requirements_file, probe, answer, call, result>>

\* merger.merge(user_requirements, user_requirements_file, extra_dependencies)
Merge ==
    /\ call.count < MaxCalls
    /\ \E all_user_reqs \in {CollectUserReqs(user_requirements, requirements_file,
                                             extra_dependencies)} :
       \E user_req_map \in {BuildUserReqMap(<<>>, all_user_reqs)} :
          /\ call' = [count |-> call.count + 1, user_requirements |-> user_requirements,
                      requirements_file |-> requirements_file,
                      extra_dependencies |-> extra_dependencies,
                      all_user_reqs |-> all_user_reqs]
          /\ result' = MergeFrom(framework,
                                 get_dockrion_requirements(framework, observability,
                                                           has_safety_policies),
                                 user_req_map)
          /\ user_requirements' = CallerObjectsAfter(user_requirements, user_req_map)
    /\ UNCHANGED <<threads, framework, observability, has_safety_policies, requirements_file,
                   extra_dependencies, probe, answer>>

Next == DeclareRequirement \/ WriteFileLine \/ DeclareExtraDependency \/ Merge

Spec == Init /\ [][Next]_vars

(***************************************************************************)
(* Direct calls of VersionResolver.resolve, constraints_are_compatible and *)
(* merge_dependencies: one call per behaviour, with the arguments drawn    *)
(* from the sets below.                                                    *)
(***************************************************************************)
\* the most constraints the constraint lists of one call hold together
MaxConstraints == 2

\* versions of the constraints given to constraints_are_compatible
ProbeVersions == { Version(1, 0, 0, NoTag, NoNum), Version(1, 2, 3, NoTag, NoNum),
                   Version(2, 0, 0, <<"r", "c">>, 1) }

ProbeConstraints == {VersionConstraint(op, v) : op \in VersionOperator, v \in ProbeVersions}

\* package names of the requirements given to resolve
ProbeNames == {pydantic, fastapi, <<"L", "a", "n", "g", "G", "r", "a", "p", "h">>, langfuse, <<"P", "k", "g", "_", "N", "a", "m", "e">>, <<"l", "a", "n", "g", "c", "h", "a", "i", "n", "_", "c", "o", "r", "e">>}

\* constraints of the requirements given to resolve: ==0.0.1, <0.0.2, >=3.0.0,
\* !=1.0.0, <2.5.0
ResolveConstraints ==
    { VersionConstraint("EQ", Version(0, 0, 1, NoTag, NoNum)),
      VersionConstraint("LT", Version(0, 0, 2, NoTag, NoNum)),
      VersionConstraint("GE", Version(3, 0, 0, NoTag, NoNum)),
      VersionConstraint("NE", Version(1, 0, 0, NoTag, NoNum)),
      VersionConstraint("LT", Version(2, 5, 0, NoTag, NoNum)) }

\* the dockrion_constraint argument of resolve: None (the default) or a constraint
DockrionConstraintArgs == {NoneText, <<"<", "0", ".", "0", ".", "1">>}

InitProbe ==
    /\ framework = custom
    /\ observability = [langfuse |-> FALSE, langsmith |-> FALSE]
    /\ has_safety_policies = FALSE
    /\ user_requirements = <<>>
    /\ requirements_file = [exists |-> FALSE, lines |-> <<>>]
    /\ extra_dependencies = <<>>
    /\ call = NoCall
    /\ result = NoResult
    /\ probe = NoProbe
    /\ answer = NoResult
    /\ threads = <<>>

\* VersionResolver(framework=fw).resolve(user_req, dockrion_constraint)
ProbeResolve ==
    /\ probe = NoProbe
    /\ \E fw \in FrameworkArgs, name \in ProbeNames, k \in 0..MaxConstraints,
          dockrion_constraint \in DockrionConstraintArgs :
       \E constraints \in [1..k -> ResolveConstraints] :
       \E user_req \in {Requirement(name, constraints, <<>>, NoMarker, <<>>)} :
          /\ probe' = [fn |-> "resolve", framework |-> fw, user_req |-> user_req,
                       dockrion_constraint |-> dockrion_constraint]
          /\ answer' = resolve(build_dockrion_deps(fw), user_req, dockrion_constraint)
    /\ UNCHANGED <<threads, framework, observability, has_safety_policies, user_requirements,
                   requirements_file, extra_dependencies, call, result>>

\* constraints_are_compatible(constraints1, constraints2)
ProbeCompatible ==
    /\ probe = NoProbe
    /\ \E k1 \in 0..MaxConstraints :
       \E k2 \in 0..(MaxConstraints - k1) :
       \E constraints1 \in [1..k1 -> ProbeConstraints],
          constraints2 \in [1..k2 -> ProbeConstraints] :
          /\ probe' = [fn |-> "constraints_are_compatible",
                       constraints1 |-> constraints1, constraints2 |-> constraints2]
          /\ answer' = [raised |-> "no",
                        value |-> constraints_are_compatible(constraints1, constraints2)]
    /\ UNCHANGED <<threads, framework, observability, has_safety_policies, user_requirements,
                   requirements_file, extra_dependencies, call, result>>

\* the framework argument of merge_dependencies: "" (the default applies),
\* langgraph, langchain and a name the platform has no table of
MergeFrameworkArgs == {<<>>, langgraph, langchain, <<"h", "a", "y", "s", "t", "a", "c", "k">>}

\* the extra_dependencies argument of merge_dependencies: none, a package of an
\* Optional flag, a package of a framework, a package of two frameworks
MergeExtraArgs == {<<>>, <<<<"l", "a", "n", "g", "f", "u", "s", "e", ">", "=", "1", ".", "0", ".", "0">>>>, <<<<"L", "a", "n", "g", "G", "r", "a", "p", "h", "=", "=", "0", ".", "0", ".", "1">>>>,
                   <<<<"l", "a", "n", "g", "c", "h", "a", "i", "n", "_", "c", "o", "r", "e", "[", "x", "]", ">", "=", "0", ".", "2", ".", "0">>>>}

\* merge_dependencies(framework, None, extra_dependencies, observability,
\* has_safety_policies): a DependencyMerger is constructed and merge is called
MergeDependencies ==
    /\ probe = NoProbe
    /\ \E fw \in MergeFrameworkArgs, extras \in MergeExtraArgs,
          obs \in [langfuse : BOOLEAN, langsmith : BOOLEAN], safety \in BOOLEAN :
       \E all_user_reqs \in {CollectUserReqs(<<>>, requirements_file, extras)} :
          /\ probe' = [fn |-> "merge_dependencies", framework |-> fw]
          /\ framework' = MergerFramework(fw)
          /\ observability' = obs
          /\ has_safety_policies' = safety
          /\ extra_dependencies' = extras
          /\ call' = [count |-> 1, user_requirements |-> <<>>,
                      requirements_file |-> requirements_file,
                      extra_dependencies |-> extras, all_user_reqs |-> all_user_reqs]
          /\ result' = MergeFrom(MergerFramework(fw),
                                 get_dockrion_requirements(MergerFramework(fw), obs, safety),
                                 BuildUserReqMap(<<>>, all_user_reqs))
    /\ UNCHANGED <<threads, user_requirements, requirements_file, answer>>

\* constraints of the lists that are given to constraints_are_compatible in two
\* orders
ReorderedConstraints ==
    {VersionConstraint(op, v) : op \in {"EQ", "GE", "LT"}, v \in ProbeVersions}
    \cup {VersionConstraint("NE", Version(1, 0, 0, NoTag, NoNum))}

\* the second list of those calls: empty or one constraint
OtherLists == {<<>>} \cup {<<c>> : c \in ReorderedConstraints}

\* constraints_are_compatible(constraints1, constraints2), then the same call
\* with the constraints of constraints1 in another order
ProbeReordered ==
    /\ probe = NoProbe
    /\ \E k \in 2..MaxConstraints, constraints2 \in OtherLists :
       \E constraints1 \in [1..k -> ReorderedConstraints], order \in Permutations(1..k) :
       \E reordered \in {[i \in 1..k |-> constraints1[order[i]]]} :
          /\ probe' = [fn |-> "constraints_are_compatible twice",
                       constraints1 |-> constraints1, constraints2 |-> constraints2,
                       reordered |-> reordered]
          /\ answer' = [raised |-> "no",
                        value |-> constraints_are_compatible(constraints1, constraints2),
                        second |-> constraints_are_compatible(reordered, constraints2)]
    /\ UNCHANGED <<threads, framework, observability, has_safety_policies, user_requirements,
                   requirements_file, extra_dependencies, call, result>>

\* package names given to get_dependency_type, in several spellings
SpelledNames ==
    {<<"l", "a", "n", "g", "c", "h", "a", "i", "n", "_", "c", "o", "r", "e">>, <<"l", "a", "n", "g", "c", "h", "a", "i", "n", "-", "c", "o", "r", "e">>, <<"L", "a", "n", "g", "c", "h", "a", "i", "n", "-", "C", "o", "r", "e">>, <<"L", "A", "N", "G", "C", "H", "A", "I", "N", ".", "-", "_", "c", "o", "r", "e">>,
     <<"P", "k", "g", "_", "N", "a", "m", "e">>, <<"p", "k", "g", "-", "n", "a", "m", "e">>, <<"P", "K", "G", ".", ".", "N", "A", "M", "E">>, <<"L", "a", "n", "g", "G", "r", "a", "p", "h">>, <<"l", "a", "n", "g", "g", "r", "a", "p", "h">>, pydantic, <<"P", "y", "d", "a", "n", "t", "i", "c">>,
     <<"p", "r", "o", "m", "e", "t", "h", "e", "u", "s", "_", "c", "l", "i", "e", "n", "t">>, <<"P", "r", "o", "m", "e", "t", "h", "e", "u", "s", ".", "C", "l", "i", "e", "n", "t">>, langfuse, <<"L", "a", "n", "g", "F", "u", "s", "e">>, regex}

\* m = DependencyMerger(fw, obs, safety); m.resolver.get_dependency_type(package)
\* next to the keys of m.get_dockrion_requirements()
ProbeDependencyType ==
    /\ probe = NoProbe
    /\ \E fw \in MergeFrameworkArgs, package \in SpelledNames,
          obs \in [langfuse : BOOLEAN, langsmith : BOOLEAN], safety \in BOOLEAN :
          /\ probe' = [fn |-> "get_dependency_type", framework |-> fw, package |-> package]
          /\ framework' = MergerFramework(fw)
          /\ observability' = obs
          /\ has_safety_policies' = safety
          /\ answer' = [raised |-> "no",
                        value |-> get_dependency_type(build_dockrion_deps(MergerFramework(fw)),
                                                      package),
                        dockrion_requirements |->
                            DictKeys(get_dockrion_requirements(MergerFramework(fw), obs, safety))]
    /\ UNCHANGED <<threads, user_requirements, requirements_file, extra_dependencies,
                   call, result>>

\* requirement strings given to parse_requirement: constraints that parse and
\* that do not, spaces around the operators and the commas, extras, a marker
RequirementStrings ==
    {<<"p", "k", "g">>, <<"p", "k", "g", ">", "=", "1", ".", "0", ",", "<", "2", ".", "0">>, <<"p", "k", "g", ">", "=", "1", ".", "0", ",", "f", "o", "o", ",", "<", "2">>, <<"p", "k", "g", ">", "=", "1", ".", "0", ",", ",", "<", "2">>, <<"p", "k", "g", "[", "a", ",", "b", "]", ">", "=", "1", ".", "0", ",", "=", "=", "1", ".", "0", ".", "*">>,
     <<"p", "k", "g", ">", "=", " ", "1", ".", "0", " ", ",", " ", "<", "2">>, <<"p", "k", "g", " ", ">", "=", "1", ".", "0">>, <<"p", "k", "g", " ", ">", "=", " ", "1", ".", "0", ",", " ", "<", "2">>, <<"p", "k", "g", "~", "=", "1", ".", "2", ",", " ", "!", "=", "1", ".", "2", ".", "5">>,
     <<"P", "k", "g", "_", "N", "a", "m", "e", "[", "a", "]", "<", "2", ";", " ", "p", "y", "t", "h", "o", "n", "_", "v", "e", "r", "s", "i", "o", "n", "<", "'", "3", ".", "9", "'">>, <<" ", " ", "p", "k", "g", "=", "=", "1", ".", "0", ".", "0", "r", "c", "1", " ", " ">>}

\* parse_requirement(req_str)
ParseRequirement ==
    /\ probe = NoProbe
    /\ \E req_str \in RequirementStrings :
          /\ probe' = [fn |-> "parse_requirement", req_str |-> req_str]
          /\ answer' = [raised |-> "no", value |-> parse_requirement(req_str)]
    /\ UNCHANGED <<threads, framework, observability, has_safety_policies, user_requirements,
                   requirements_file, extra_dependencies, call, result>>

\* lines of the content given to parse_requirements_string: blank lines,
\* comments, options, requirements with and without an inline comment, and a
\* line without a package name
LinePool ==
    {<<>>, <<" ", " ">>, <<"#", " ", "c", "o", "m", "m", "e", "n", "t">>, <<" ", " ", "#", " ", "i", "n", "d", "e", "n", "t", "e", "d">>, <<"-", "r", " ", "o", "t", "h", "e", "r", ".", "t", "x", "t">>, <<"-", "-", "i", "n", "d", "e", "x", "-", "u", "r", "l", " ", "h", "t", "t", "p", "s", ":", "/", "/", "x">>,
     <<"p", "y", "d", "a", "n", "t", "i", "c", ">", "=", "2", ".", "5">>, <<"f", "a", "s", "t", "a", "p", "i", "<", "1", " ", " ", "#", " ", "p", "i", "n", "n", "e", "d">>, <<" ", " ", "r", "e", "q", "u", "e", "s", "t", "s", " ", " ">>, <<"@", "b", "a", "d">>}

\* parse_requirements_string(content), content given by its lines
ParseRequirementsString ==
    /\ probe = NoProbe
    /\ \E k \in 0..MaxDeclarations :
       \E lines \in [1..k -> LinePool] :
          /\ probe' = [fn |-> "parse_requirements_string", lines |-> lines]
          /\ answer' = [raised |-> "no", value |-> parse_requirements_string(lines)]
    /\ UNCHANGED <<threads, framework, observability, has_safety_policies, user_requirements,
                   requirements_file, extra_dependencies, call, result>>

\* parse_requirements_file(file_path), for a file of those lines and for a path
\* without a file
ParseRequirementsFile ==
    /\ probe = NoProbe
    /\ \E k \in 0..MaxDeclarations, exists \in BOOLEAN :
       \E lines \in [1..(IF exists THEN k ELSE 0) -> LinePool] :
          /\ probe' = [fn |-> "parse_requirements_file",
                       file |-> [exists |-> exists, lines |-> lines]]
          /\ answer' = parse_requirements_file([exists |-> exists, lines |-> lines])
    /\ UNCHANGED <<threads, framework, observability, has_safety_policies, user_requirements,
                   requirements_file, extra_dependencies, call, result>>

NextProbe ==
    ProbeResolve \/ ProbeCompatible \/ MergeDependencies \/ ProbeReordered
    \/ ProbeDependencyType \/ ParseRequirement \/ ParseRequirementsString
    \/ ParseRequirementsFile

SpecProbe == InitProbe /\ [][NextProbe]_vars
(***************************************************************************)
(* Two merge calls on concurrent threads.  user_requirements is the heap   *)
(* of the callers' Requirement objects; a thread's explicit list holds     *)
(* positions of that heap, so that two threads handed the same list hold   *)
(* the same objects.  A Requirement that merge parses from an extra        *)
(* dependency string belongs to the thread alone.  The threads interleave  *)
(* between the statements of merge: the collection of the sources, each    *)
(* iteration of the loop that builds user_req_map, and the rest.           *)
(***************************************************************************)
Threads == {1, 2}

\* the explicit Requirement lists a caller hands to merge: pydantic[email] with
\* a marker, fastapi>=0.110.0, and pydantic==1.0.0 with the former
ThreadRequirementLists ==
    { <<Requirement(pydantic, <<>>, <<<<"e", "m", "a", "i", "l">>>>, <<"p", "y", "t", "h", "o", "n", "_", "v", "e", "r", "s", "i", "o", "n", "<", "'", "3", ".", "9", "'">>, <<>>)>>,
      <<Requirement(fastapi, <<VersionConstraint("GE", Version(0, 110, 0, NoTag, NoNum))>>,
                    <<>>, NoMarker, <<>>)>>,
      <<Requirement(langfuse, <<VersionConstraint("LT", Version(1, 0, 0, NoTag, NoNum))>>,
                    <<<<"o", "t", "e", "l">>>>, NoMarker, <<>>),
        Requirement(pydantic, <<>>, <<<<"e", "m", "a", "i", "l">>>>, <<"p", "y", "t", "h", "o", "n", "_", "v", "e", "r", "s", "i", "o", "n", "<", "'", "3", ".", "9", "'">>, <<>>)>> }

\* the extra_dependencies argument of a thread's call
ThreadExtraArgs == {<<>>, <<<<"p", "y", "d", "a", "n", "t", "i", "c", ">", "=", "2", ".", "6">>>>, <<<<"P", "y", "d", "a", "n", "t", "i", "c", "[", "d", "o", "t", "e", "n", "v", "]", "<", "3">>>>, <<<<"l", "a", "n", "g", "f", "u", "s", "e", "[", "o", "t", "e", "l", "]">>>>}

\* a reference to a Requirement: the object at a position of the heap, or an
\* object of the thread's own
HeapRef(position) == [at |-> position, own |-> <<>>]

OwnRef(req) == [at |-> 0, own |-> req]

\* the Requirement a reference leads to, as it is now
Deref(ref) == IF ref.at > 0 THEN user_requirements[ref.at] ELSE ref.own

\* references to the objects of the explicit list
HeapRefs(explicit) == [k \in 1..Len(explicit) |-> HeapRef(explicit[k])]

\* references to the Requirements parsed from the extra dependency strings
OwnRefs(reqs) == [k \in 1..Len(reqs) |-> OwnRef(reqs[k])]

\* a thread that has not called merge yet; user_requirements keeps the
\* Requirements of its list as the caller built them
ThreadBefore(explicit, reqs, extras) ==
    [pc |-> "call", explicit |-> explicit, user_requirements |-> reqs,
     extra_dependencies |-> extras, all_user_reqs |-> <<>>, i |-> 1,
     user_req_map |-> <<>>, result |-> NoResult]

\* one DependencyMerger and two threads about to call merge, with the same list
\* of Requirement objects or each with a list of its own of equal content
InitThreads ==
    /\ \E args \in MergerArgs :
          /\ framework = MergerFramework(args.framework)
          /\ observability = args.observability
          /\ has_safety_policies = args.has_safety_policies
    /\ \E reqs \in ThreadRequirementLists, same_list \in BOOLEAN,
          extras1 \in ThreadExtraArgs, extras2 \in ThreadExtraArgs :
          /\ user_requirements = IF same_list THEN reqs ELSE reqs \o reqs
          /\ threads =
                << ThreadBefore([k \in 1..Len(reqs) |-> k], reqs, extras1),
                   ThreadBefore([k \in 1..Len(reqs) |->
                                    IF same_list THEN k ELSE Len(reqs) + k], reqs, extras2) >>
    /\ requirements_file = [exists |-> FALSE, lines |-> <<>>]
    /\ extra_dependencies = <<>>
    /\ call = NoCall
    /\ result = NoResult
    /\ probe = NoProbe
    /\ answer = NoResult

\* merge, "Collect user requirements from all sources": all_user_reqs holds the
\* caller's objects themselves and the Requirements parsed from the extras
ThreadCollect(t) ==
    /\ threads[t].pc = "call"
    /\ threads' = [threads EXCEPT
                      ![t].pc = "build",
                      ![t].all_user_reqs =
                          HeapRefs(threads[t].explicit)
                          \o OwnRefs(ParseExtraDependencies(threads[t].extra_dependencies))]
    /\ UNCHANGED <<framework, observability, has_safety_policies, user_requirements,
                   requirements_file, extra_dependencies, call, result, probe, answer>>

\* the heap after the duplicate branch wrote to the object existing leads to
HeapAfter(existing, merged) ==
    IF existing.at > 0 THEN [user_requirements EXCEPT ![existing.at] = merged]
    ELSE user_requirements

\* user_req_map after the duplicate branch: the map holds the same object as
\* before, changed in place
MapAfter(map, normalized, existing, merged) ==
    IF existing.at > 0 THEN map ELSE DictPut(map, normalized, OwnRef(merged))

\* one iteration of "for req in all_user_reqs" on thread t, with ref the
\* reference at the loop's position and normalized = req.normalized_name
ThreadBuildStep(t, ref, normalized, map) ==
    IF DictHas(map, normalized)
    THEN \E existing \in {DictGet(map, normalized, <<>>)} :
         \E merged \in {MergeDuplicate(Deref(existing), Deref(ref))} :
            /\ user_requirements' = HeapAfter(existing, merged)
            /\ threads' = [threads EXCEPT
                              ![t].i = threads[t].i + 1,
                              ![t].user_req_map = MapAfter(map, normalized, existing, merged)]
    ELSE /\ user_requirements' = user_requirements
         /\ threads' = [threads EXCEPT
                           ![t].i = threads[t].i + 1,
                           ![t].user_req_map = DictPut(map, normalized, ref)]

\* merge, "Build user requirements map": one iteration of the loop
ThreadBuild(t) ==
    /\ threads[t].pc = "build"
    /\ threads[t].i <= Len(threads[t].all_user_reqs)
    /\ \E ref \in {threads[t].all_user_reqs[threads[t].i]} :
          ThreadBuildStep(t, ref, normalized_name(Deref(ref)), threads[t].user_req_map)
    /\ UNCHANGED <<framework, observability, has_safety_policies, requirements_file,
                   extra_dependencies, call, result, probe, answer>>

\* user_req_map with the Requirements its references lead to
MapValues(map) == [k \in 1..Len(map) |-> <<map[k][1], Deref(map[k][2])>>]

\* merge from "Get dockrion requirements" to its return or its exception
ThreadFinish(t) ==
    /\ threads[t].pc = "build"
    /\ threads[t].i > Len(threads[t].all_user_reqs)
    /\ threads' = [threads EXCEPT
                      ![t].pc = "done",
                      ![t].result =
                          MergeFrom(framework,
                                    get_dockrion_requirements(framework, observability,
                                                              has_safety_policies),
                                    MapValues(threads[t].user_req_map))]
    /\ UNCHANGED <<framework, observability, has_safety_policies, user_requirements,
                   requirements_file, extra_dependencies, call, result, probe, answer>>

NextThreads == \E t \in Threads : ThreadCollect(t) \/ ThreadBuild(t) \/ ThreadFinish(t)

SpecThreads == InitThreads /\ [][NextThreads]_vars

(***************************************************************************)
(* Direct calls on versions: two version strings are parsed and the        *)
(* Versions compared, or a parsed Version is converted to text and parsed  *)
(* again.  One call per behaviour.                                         *)
(***************************************************************************)
\* the numbers of a version string, with and without minor and patch
NumberTexts == {<<"1">>, <<"1", ".", "0">>, <<"1", ".", "1">>, <<"1", ".", "1", "0">>, <<"1", ".", "0", ".", "0">>, <<"1", ".", "0", ".", "1">>, <<"1", ".", "1", ".", "0">>, <<"1", ".", "1", ".", "1">>}

\* the pre-release part of a version string: none, or a tag (one of them in
\* upper case) with no number, with 0 or with 1
PreReleaseTexts ==
    {<<>>} \cup {tag \o num : tag \in PreReleaseTags \cup {<<"R", "C">>}, num \in {<<>>, <<"0">>, <<"1">>}}

VersionTexts == {numbers \o pre : numbers \in NumberTexts, pre \in PreReleaseTexts}

\* parse_version(s1) and parse_version(s2), compared with <, <=, >, >= and ==
CompareVersions ==
    /\ probe = NoProbe
    /\ \E s1 \in VersionTexts, s2 \in VersionTexts :
       \E v1 \in {parse_version(s1).value}, v2 \in {parse_version(s2).value} :
          /\ probe' = [fn |-> "compare", version_str1 |-> s1, version_str2 |-> s2,
                       version1 |-> v1, version2 |-> v2]
          /\ answer' = [raised |-> "no", lt |-> VersionLt(v1, v2), le |-> VersionLe(v1, v2),
                        gt |-> VersionGt(v1, v2), ge |-> VersionGe(v1, v2),
                        eq |-> VersionEq(v1, v2)]
    /\ UNCHANGED <<framework, observability, has_safety_policies, user_requirements,
                   requirements_file, extra_dependencies, call, result, threads>>

\* what a call of parse_version returns or raises
ParseOutcome(parsed) ==
    [raised |-> IF parsed.ok THEN "no" ELSE "ValueError", value |-> parsed.value]

\* parse_version(str(v)) for a Version v that parse_version returned
RoundTrip ==
    /\ probe = NoProbe
    /\ \E s \in VersionTexts :
       \E v \in {parse_version(s).value} :
          /\ probe' = [fn |-> "round_trip", version_str |-> s, version |-> v]
          /\ answer' = ParseOutcome(parse_version(VersionStr(v)))
    /\ UNCHANGED <<framework, observability, has_safety_policies, user_requirements,
                   requirements_file, extra_dependencies, call, result, threads>>

\* the version part of the constraint strings: with and without a patch
\* component, the patch 0 written and not written
ConstraintNumberTexts == {<<"1", ".", "2">>, <<"1", ".", "2", ".", "0">>, <<"1", ".", "2", ".", "3">>, <<"2", ".", "0">>, <<"2", ".", "0", ".", "0">>, <<"1", ".", "3", ".", "0", "r", "c", "1">>}

ConstraintTexts ==
    {OperatorValue(op) \o numbers : op \in VersionOperator, numbers \in ConstraintNumberTexts}

\* the version strings of the versions tested against a constraint
CandidateTexts ==
    {<<"1", ".", "1", ".", "9">>, <<"1", ".", "2">>, <<"1", ".", "2", ".", "0">>, <<"1", ".", "2", ".", "2">>, <<"1", ".", "2", ".", "3">>, <<"1", ".", "2", ".", "9">>, <<"1", ".", "3", ".", "0", "r", "c", "1">>, <<"1", ".", "3", ".", "0">>, <<"1", ".", "9", ".", "0">>,
     <<"2", ".", "0", ".", "0", "a", "1">>, <<"2", ".", "0", ".", "0">>, <<"2", ".", "0", ".", "1">>, <<"3", ".", "0", ".", "0">>}

\* parse_version_constraint(s1).is_satisfied_by(parse_version(s2))
IsSatisfiedBy ==
    /\ probe = NoProbe
    /\ \E s1 \in ConstraintTexts, s2 \in CandidateTexts :
       \E c \in {parse_version_constraint(s1).value}, v \in {parse_version(s2).value} :
          /\ probe' = [fn |-> "is_satisfied_by", constraint_str |-> s1, version_str |-> s2,
                       constraint |-> c, version |-> v]
          /\ answer' = [raised |-> "no", value |-> is_satisfied_by(c, v)]
    /\ UNCHANGED <<framework, observability, has_safety_policies, user_requirements,
                   requirements_file, extra_dependencies, call, result, threads>>

NextVersion == CompareVersions \/ RoundTrip \/ IsSatisfiedBy

SpecVersion == InitProbe /\ [][NextVersion]_vars

(***************************************************************************)
(* Properties of merge, stated over the arguments of the last call (call)  *)
(* and what it returned or raised (result).                                *)
(***************************************************************************)
Called == call.count > 0

\* merge returned a MergeResult
Returned == Called /\ result.raised = "no"

\* the user's declarations of the call, in the order merge reads its sources
Declared == call.all_user_reqs

DeclaredNames == {normalized_name(Declared[i]) : i \in 1..Len(Declared)}

\* the declarations of the package with normalized name n, in order
DeclarationsOf(n) == SelectSeq(Declared, LAMBDA req : normalized_name(req) = n)

\* the constraints of a list of declarations, one after the other
RECURSIVE AllConstraints(_)
AllConstraints(reqs) ==
    IF reqs = <<>> THEN <<>> ELSE Head(reqs).constraints \o AllConstraints(Tail(reqs))

\* a sequence without the repetitions of its elements
RECURSIVE WithoutRepeats(_)
WithoutRepeats(s) ==
    IF s = <<>> THEN <<>>
    ELSE IF \E i \in 1..(Len(s) - 1) : s[i] = s[Len(s)]
    THEN WithoutRepeats(SubSeq(s, 1, Len(s) - 1))
    ELSE Append(WithoutRepeats(SubSeq(s, 1, Len(s) - 1)), s[Len(s)])

\* the extras of a list of declarations: those of the first as they are, then
\* every extra of a later declaration that is new
RECURSIVE LaterExtras(_)
LaterExtras(reqs) ==
    IF reqs = <<>> THEN <<>> ELSE Head(reqs).extras \o LaterExtras(Tail(reqs))

AllExtras(reqs) ==
    reqs[1].extras
    \o SelectSeq(WithoutRepeats(reqs[1].extras \o LaterExtras(Tail(reqs))),
                 LAMBDA e : \A i \in 1..Len(reqs[1].extras) : reqs[1].extras[i] # e)

\* the user's requirement for n after its duplicates are merged: the name and
\* the marker of the first declaration, the constraints and extras of all
UserRequirement(n) ==
    Requirement(DeclarationsOf(n)[1].name, AllConstraints(DeclarationsOf(n)),
                AllExtras(DeclarationsOf(n)), DeclarationsOf(n)[1].marker,
                DeclarationsOf(n)[1].original)

\* the pip rendering of the user's merged requirement for n
UserString(n) == to_pip_string(UserRequirement(n))

\* the normalized names of a table of the platform
NamesOf(table) == {normalize_package_name(table[i][1]) : i \in 1..Len(table)}

CoreNames == NamesOf(CORE_DEPENDENCIES)

RuntimeNames == NamesOf(RUNTIME_DEPENDENCIES)

OptionalNames == NamesOf(OPTIONAL_DEPENDENCIES)

\* the table of the framework fw, empty for a framework the platform has no table of
FrameworkTable(fw) ==
    IF \E f \in 1..Len(FRAMEWORK_DEPENDENCIES) : FRAMEWORK_DEPENDENCIES[f][1] = fw
    THEN FRAMEWORK_DEPENDENCIES[CHOOSE f \in 1..Len(FRAMEWORK_DEPENDENCIES) :
                                    FRAMEWORK_DEPENDENCIES[f][1] = fw][2]
    ELSE <<>>

\* the category of the package n for a resolver or merger of framework fw, read
\* off the platform's tables
CategoryOf(fw, n) ==
    IF n \in OptionalNames THEN "optional"
    ELSE IF n \in NamesOf(FrameworkTable(fw)) THEN "framework"
    ELSE IF n \in RuntimeNames THEN "runtime"
    ELSE IF n \in CoreNames THEN "core"
    ELSE "user"

\* the Optional packages that the merger's flags enable
EnabledOptionalNames ==
    (IF observability.langfuse THEN {normalize_package_name(langfuse)} ELSE {})
    \cup (IF observability.langsmith THEN {normalize_package_name(langsmith)} ELSE {})
    \cup (IF has_safety_policies THEN {normalize_package_name(regex)} ELSE {})

\* the normalized names of the active platform set of the merger
PlatformNames ==
    CoreNames \cup RuntimeNames \cup NamesOf(FrameworkTable(framework))
    \cup EnabledOptionalNames

\* the rows of a table of the platform, each as <<normalized name, name,
\* constraint, parsed constraint>>
RowsOf(table) ==
    {<<normalize_package_name(table[i][1]), table[i][1], table[i][2],
       parse_constraints(table[i][2]).value>> : i \in 1..Len(table)}

BaseRows == RowsOf(CORE_DEPENDENCIES \o RUNTIME_DEPENDENCIES \o OPTIONAL_DEPENDENCIES)

\* the rows of every framework table, each set with its framework's name
FrameworkRows ==
    {<<FRAMEWORK_DEPENDENCIES[f][1], RowsOf(FRAMEWORK_DEPENDENCIES[f][2])>> :
        f \in 1..Len(FRAMEWORK_DEPENDENCIES)}

\* the rows of the table of the merger's framework
SelectedFrameworkRows == UNION {t[2] : t \in {u \in FrameworkRows : u[1] = framework}}

\* the platform's row for the package n of the active platform set
PlatformRow(n) ==
    IF \E r \in SelectedFrameworkRows : r[1] = n
    THEN CHOOSE r \in SelectedFrameworkRows : r[1] = n
    ELSE CHOOSE r \in BaseRows : r[1] = n

\* the platform's own string for the platform package n: the table's name
\* followed by the table's constraint
PlatformString(n) == PlatformRow(n)[2] \o PlatformRow(n)[3]

PlatformConstraint(n) == PlatformRow(n)[3]

\* the user declares the platform package n with at least one version constraint
UserConstrains(n) ==
    n \in DeclaredNames /\ n \in PlatformNames /\ AllConstraints(DeclarationsOf(n)) # <<>>

\* the range-overlap check on the user's merged constraints for n and the
\* platform's constraint
RangeCompatible(n) ==
    constraints_are_compatible(AllConstraints(DeclarationsOf(n)), PlatformRow(n)[4])

\* the package an entry of the requirements list belongs to
PackageOf(str) == normalize_package_name(NameRun(str))

\* the package of each entry of the requirements list
EntryPackages == [i \in 1..Len(result.requirements) |-> PackageOf(result.requirements[i])]

\* the entries of the requirements list that belong to the package n
EntriesOf(n) == SelectSeq(result.requirements, LAMBDA str : PackageOf(str) = n)

InRequirements(str) == \E i \in 1..Len(result.requirements) : result.requirements[i] = str

\* the resolution recorded for n
Resolution(n) ==
    result.resolutions[CHOOSE i \in 1..Len(result.resolutions) : result.resolutions[i][1] = n][2]

HasResolution(n) == \E i \in 1..Len(result.resolutions) : result.resolutions[i][1] = n

\* sub occurs in the text s
Contains(s, sub) ==
    \E i \in 1..(Len(s) - Len(sub) + 1) : SubSeq(s, i, i + Len(sub) - 1) = sub

\* the warnings that mention the name
WarningsAbout(name) == SelectSeq(result.warnings, LAMBDA w : Contains(w, name))

\* the Core and Runtime packages that the user constrains incompatibly
ConflictNames ==
    {n \in DeclaredNames : /\ UserConstrains(n)
                           /\ CategoryOf(framework, n) \in {"core", "runtime"}
                           /\ ~RangeCompatible(n)}

\* C1: when a user requirement for a Core or Runtime platform package has, after
\* its duplicates are merged, at least one constraint and the range-overlap check
\* finds it incompatible with the platform's constraint, merge raises
\* DependencyConflictError; the error names such a package as the user spelled
\* it and carries the user's requirement string and the platform's string for
\* it; no MergeResult is returned.
C1_CoreRuntimeConflictRaises ==
    (Called /\ ConflictNames # {}) =>
        /\ result.raised = "DependencyConflictError"
        /\ \E n \in ConflictNames :
              LET user_req == UserRequirement(n)
              IN /\ result.package = user_req.name
                 /\ result.user_constraint = to_pip_string(user_req)
                 /\ result.dockrion_constraint = n \o PlatformConstraint(n)
        /\ DOMAIN result \cap {"requirements", "resolutions", "warnings",
                               "user_overrides", "dockrion_versions"} = {}

\* pydantic==1.0.0 against the platform's pydantic>=2.5
C1_Witness ==
    /\ Called
    /\ result.raised = "DependencyConflictError"
    /\ result.package = pydantic
    /\ result.user_constraint = <<"p", "y", "d", "a", "n", "t", "i", "c", "=", "=", "1", ".", "0", ".", "0">>
    /\ result.dockrion_constraint = <<"p", "y", "d", "a", "n", "t", "i", "c", ">", "=", "2", ".", "5">>

\* the platform packages that the user constrains compatibly
CompatibleNames == {n \in DeclaredNames : UserConstrains(n) /\ RangeCompatible(n)}

\* C4 (as amended): when a user requirement for a platform package has
\* constraints that the range-overlap check finds compatible, the resolution is
\* UserOverride with source user and the one entry of the requirements list for
\* that package is the pip rendering of the user's merged requirement (name,
\* extras, constraints with three-component versions, marker); the platform has
\* no entry for it.
C4_CompatibleUserOverride ==
    Returned =>
        \A n \in CompatibleNames :
            LET resolved == Resolution(n)
                user_string == UserString(n)
            IN /\ HasResolution(n)
               /\ resolved.resolution = "user_override"
               /\ resolved.source = "user"
               /\ resolved.constraint = user_string
               /\ EntriesOf(n) = <<user_string>>

\* fastapi>=0.110.0 against the platform's fastapi>=0.109.0
C4_Witness ==
    /\ Returned
    /\ fastapi \in CompatibleNames
    /\ EntriesOf(fastapi) = <<<<"f", "a", "s", "t", "a", "p", "i", ">", "=", "0", ".", "1", "1", "0", ".", "0">>>>
    /\ Resolution(fastapi).resolution = "user_override"

\* the text of a line of the requirements file without its inline comment
WrittenLine(line) == Strip(Split(line, "#")[1])

\* C4 as the specification states it: the requirements list holds the user's
\* requirement as written, here for a package that one line of the requirements
\* file declares and nothing else
C4_AsWritten ==
    Returned =>
        \A i \in 1..Len(call.requirements_file.lines) :
            (/\ parse_requirement(WrittenLine(call.requirements_file.lines[i])).ok
             /\ normalized_name(parse_requirement(WrittenLine(call.requirements_file.lines[i])).value)
                    \in CompatibleNames
             /\ Len(Declared) = 1)
            => InRequirements(WrittenLine(call.requirements_file.lines[i]))

\* the packages of the active Framework set that the user constrains incompatibly
FrameworkConflictNames ==
    {n \in DeclaredNames : /\ UserConstrains(n)
                           /\ CategoryOf(framework, n) = "framework"
                           /\ ~RangeCompatible(n)}

\* C6 (as amended): when a user requirement for a package of the active Framework
\* set is range-incompatible with the platform's constraint, merge does not raise
\* on its account; the resolution is PlatformWins with source platform, the one
\* entry of the requirements list for that package is the name as the user
\* spelled it followed by the platform's constraint, the user's requirement
\* string is not in the list, and the warning for that package is in
\* MergeResult.warnings.
C6_FrameworkConflictPlatformWins ==
    /\ (Called /\ ConflictNames = {}) => Returned
    /\ Returned =>
          \A n \in FrameworkConflictNames :
              LET resolved == Resolution(n)
                  user_req == UserRequirement(n)
                  user_string == to_pip_string(user_req)
                  constraint == PlatformConstraint(n)
              IN /\ HasResolution(n)
                 /\ resolved.resolution = "dockrion_wins"
                 /\ resolved.source = "dockrion"
                 /\ EntriesOf(n) = <<user_req.name \o constraint>>
                 /\ ~InRequirements(user_string)
                 /\ \E i \in 1..Len(result.warnings) :
                       result.warnings[i] =
                           <<"Using dockrion's version for ">> \o user_req.name
                           \o <<": ">> \o constraint
                           \o <<" (you specified ">> \o user_string \o <<")">>

\* LangGraph==0.0.1 against the platform's langgraph>=0.0.20
C6_Witness ==
    /\ Returned
    /\ langgraph \in FrameworkConflictNames
    /\ EntriesOf(langgraph) = <<<<"L", "a", "n", "g", "G", "r", "a", "p", "h", ">", "=", "0", ".", "0", ".", "2", "0">>>>
    /\ Len(WarningsAbout(<<"L", "a", "n", "g", "G", "r", "a", "p", "h">>)) = 1

\* C6 as the specification states it: the final string is the platform's pinned
\* string
C6_PlatformPinnedString ==
    Returned => \A n \in FrameworkConflictNames : InRequirements(PlatformString(n))

\* the enabled Optional packages that the user constrains incompatibly
OptionalConflictNames ==
    {n \in DeclaredNames : /\ UserConstrains(n)
                           /\ CategoryOf(framework, n) = "optional"
                           /\ ~RangeCompatible(n)}

\* C7: when a user requirement for an enabled Optional package is incompatible
\* with the platform's constraint, merge resolves it as UserOverride with the
\* user's string and records exactly one warning that references the package.
C7_OptionalConflictWarns ==
    Returned =>
        \A n \in OptionalConflictNames :
            /\ Resolution(n).resolution = "user_override"
            /\ EntriesOf(n) = <<UserString(n)>>
            /\ Len(WarningsAbout(UserRequirement(n).name)) = 1

\* C7 on the specification's own example: the user's langfuse>=1.0.0 against the
\* platform's langfuse>=2.0.0 leaves one warning that references langfuse
C7_ExampleWarns ==
    (/\ Returned
     /\ observability.langfuse
     /\ langfuse \in DeclaredNames
     /\ UserString(langfuse) = <<"l", "a", "n", "g", "f", "u", "s", "e", ">", "=", "1", ".", "0", ".", "0">>)
    => Len(WarningsAbout(langfuse)) = 1

\* C8: after a successful merge every package of any source (the user's
\* declarations, the active platform set, the meta-package) has exactly one entry
\* in MergeResult.requirements, and no two entries of the list belong to the same
\* normalized package name.
C8_EachPackageOnce ==
    Returned =>
        LET packages == EntryPackages
        IN /\ \A n \in DeclaredNames \cup PlatformNames \cup {normalize_package_name(dockrion)} :
                 Cardinality({i \in 1..Len(packages) : packages[i] = n}) = 1
           /\ \A i, j \in 1..Len(packages) : packages[i] = packages[j] => i = j

\* a package declared twice under two spellings, and a platform package among them
C8_Witness ==
    /\ Returned
    /\ \E i, j \in 1..Len(Declared) :
          /\ Declared[i].name # Declared[j].name
          /\ normalized_name(Declared[i]) = normalized_name(Declared[j])
          /\ normalized_name(Declared[i]) \in PlatformNames
          /\ Len(EntriesOf(normalized_name(Declared[i]))) = 1

\* C9: after a successful merge the keys of MergeResult.resolutions are the
\* normalized names of the user's packages, of the active platform set and of
\* the meta-package, and MergeResult.requirements holds exactly one string per
\* key, the constraint of the key's ResolvedDependency.
C9_ResolutionsExhaustive ==
    Returned =>
        /\ DictKeys(result.resolutions)
              = DeclaredNames \cup PlatformNames \cup {normalize_package_name(dockrion)}
        /\ Len(result.requirements) = Len(result.resolutions)
        /\ Len(result.resolutions) = Cardinality(DictKeys(result.resolutions))
        /\ LET packages == EntryPackages
           IN \A k \in 1..Len(result.resolutions) :
                 LET resolved == result.resolutions[k][2]
                 IN /\ resolved.raised = "no"
                    /\ Cardinality({i \in 1..Len(result.requirements) :
                                       result.requirements[i] = resolved.constraint}) = 1
                    /\ \A i \in 1..Len(packages) :
                          packages[i] = result.resolutions[k][1]
                          <=> result.requirements[i] = resolved.constraint

\* a user-only package, a user-declared platform package and the rest of the
\* platform set in one result
C9_Witness ==
    /\ Returned
    /\ \E n \in DeclaredNames : n \notin PlatformNames /\ n # dockrion
    /\ \E n \in DeclaredNames : n \in PlatformNames
    /\ Len(result.requirements) = Cardinality(PlatformNames) + 2

\* C10: after a successful merge the meta-package dockrion has exactly one entry
\* in the requirements list: when a user source declares it, the entry is the
\* user's requirement with its extras and the resolution is UserOverride;
\* otherwise the entry is dockrion>=<version> and the resolution is PlatformWins.
C10_MetaPackageOnce ==
    Returned =>
        LET entries == EntriesOf(dockrion)
        IN /\ Len(entries) = 1
           /\ HasResolution(dockrion)
           /\ IF dockrion \in DeclaredNames
              THEN LET user_req == UserRequirement(dockrion)
                   IN /\ entries = <<to_pip_string(user_req)>>
                      /\ user_req.extras # <<>> =>
                            StartsWith(entries[1],
                                       user_req.name \o <<"[">>
                                       \o Join(user_req.extras, <<",">>) \o <<"]">>)
                      /\ Resolution(dockrion).resolution = "user_override"
                      /\ Resolution(dockrion).source = "user"
              ELSE /\ entries = <<dockrion \o <<">", "=">> \o DockrionVersion>>
                   /\ Resolution(dockrion).resolution = "dockrion_wins"
                   /\ Resolution(dockrion).source = "dockrion"

\* the user declares dockrion[langgraph]>=0.0.2 and, in an extra dependency,
\* dockrion
C10_Witness ==
    /\ Returned
    /\ Len(DeclarationsOf(dockrion)) = 2
    /\ result.requirements[1] = <<"d", "o", "c", "k", "r", "i", "o", "n", "[", "l", "a", "n", "g", "g", "r", "a", "p", "h", "]", ">", "=", "0", ".", "0", ".", "2">>
    /\ Len(EntriesOf(dockrion)) = 1
    /\ Resolution(dockrion).resolution = "user_override"

(***************************************************************************)
(* Properties of resolve and constraints_are_compatible, stated over the   *)
(* arguments of the call (probe) and what it returned or raised (answer).  *)
(***************************************************************************)
\* the category of the package that resolve was called for
ProbedCategory == CategoryOf(Lower(probe.framework), normalize_package_name(probe.user_req.name))

\* C2: resolve raises DependencyConflictError only for a package classified Core
\* or Runtime; for a package classified Framework, Optional or UserOnly it returns
\* a ResolvedDependency, whatever the constraint list, and it raises nothing else.
C2_ResolveRaisesOnlyForCoreRuntime ==
    probe.fn = "resolve" =>
        /\ answer.raised \in {"no", "DependencyConflictError"}
        /\ answer.raised = "DependencyConflictError" => ProbedCategory \in {"core", "runtime"}
        /\ ProbedCategory \in {"framework", "optional", "user"} =>
              /\ answer.raised = "no"
              /\ answer.resolution \in ConflictResolution

\* a Framework package and an Optional one, each with constraints that the
\* platform's constraint excludes, resolved without an exception
C2_Witness ==
    /\ probe.fn = "resolve"
    /\ ProbedCategory \in {"framework", "optional"}
    /\ probe.user_req.constraints # <<>>
    /\ ~constraints_are_compatible(
            probe.user_req.constraints,
            parse_constraints(IF probe.dockrion_constraint = NoneText
                              THEN DictGet(build_dockrion_deps(probe.framework),
                                           normalize_package_name(probe.user_req.name),
                                           <<NoneText, NoneText>>)[1]
                              ELSE probe.dockrion_constraint).value)
    /\ answer.raised = "no"

\* versions that may satisfy the constraints given to constraints_are_compatible
CandidateVersions ==
    ProbeVersions \cup
    { Version(0, 9, 0, NoTag, NoNum), Version(1, 0, 0, <<"r", "c">>, 1),
      Version(1, 0, 1, NoTag, NoNum), Version(1, 2, 2, NoTag, NoNum),
      Version(1, 2, 4, NoTag, NoNum), Version(1, 3, 0, NoTag, NoNum),
      Version(1, 9, 9, NoTag, NoNum), Version(2, 0, 0, <<"a">>, 1),
      Version(2, 0, 0, <<"r", "c">>, 2), Version(2, 0, 0, NoTag, NoNum),
      Version(2, 1, 0, NoTag, NoNum), Version(3, 0, 0, NoTag, NoNum) }

SatisfiesAll(version, constraints) ==
    \A i \in 1..Len(constraints) : is_satisfied_by(constraints[i], version)

\* C3: whenever constraints_are_compatible returns False, no version satisfies
\* every constraint of the first list and every constraint of the second list,
\* for the constraint lists over EQ, NE, GE, GT, LE, LT, COMPAT and the versions
\* of CandidateVersions.
C3_IncompatibleMeansNoCommonVersion ==
    (probe.fn = "constraints_are_compatible" /\ ~answer.value) =>
        \A version \in CandidateVersions :
            ~(/\ SatisfiesAll(version, probe.constraints1)
              /\ SatisfiesAll(version, probe.constraints2))

\* two lists that constraints_are_compatible finds incompatible, each of them
\* satisfied by some version
C3_Witness ==
    /\ probe.fn = "constraints_are_compatible"
    /\ ~answer.value
    /\ \E version \in CandidateVersions : SatisfiesAll(version, probe.constraints1)
    /\ \E version \in CandidateVersions : SatisfiesAll(version, probe.constraints2)
    /\ probe.constraints1 # <<>>
    /\ probe.constraints2 # <<>>

\* the constraint that resolve takes for the platform's
ProbedDockrionConstraint ==
    IF probe.dockrion_constraint # NoneText THEN probe.dockrion_constraint
    ELSE DictGet(build_dockrion_deps(probe.framework),
                 normalize_package_name(probe.user_req.name), <<NoneText, NoneText>>)[1]

\* C5: when the user's requirement for a platform-declared package (Core,
\* Runtime, Framework or Optional) has no version constraints, resolve returns
\* PlatformWins with source platform and the final string is the package name
\* followed by the platform's constraint, for every category and without raising.
C5_NoConstraintsPlatformWins ==
    (/\ probe.fn = "resolve"
     /\ probe.user_req.constraints = <<>>
     /\ ProbedCategory \in {"core", "runtime", "framework", "optional"})
    => /\ answer.raised = "no"
       /\ answer.resolution = "dockrion_wins"
       /\ answer.source = "dockrion"
       /\ answer.constraint = probe.user_req.name \o ProbedDockrionConstraint

\* LangGraph without constraints for a resolver of framework langgraph
C5_Witness ==
    /\ probe.fn = "resolve"
    /\ probe.user_req.constraints = <<>>
    /\ ProbedCategory = "framework"
    /\ probe.dockrion_constraint = NoneText
    /\ answer.raised = "no"
    /\ answer.constraint = <<"L", "a", "n", "g", "G", "r", "a", "p", "h", ">", "=", "0", ".", "0", ".", "2", "0">>

(***************************************************************************)
(* Properties of the active platform set.                                  *)
(***************************************************************************)
\* C11: for every package of the active platform set (Core, Runtime, the selected
\* framework's set, the enabled Optional packages) that no user source declares,
\* merge records a PlatformWins resolution with source platform, and the one
\* entry of the requirements list for it is the platform's name followed by the
\* platform's constraint, as the tables spell them.
C11_UndeclaredPlatformAdded ==
    Returned =>
        LET entries == {<<i, PackageOf(result.requirements[i])>> :
                            i \in 1..Len(result.requirements)}
        IN \A n \in PlatformNames \ DeclaredNames :
              /\ HasResolution(n)
              /\ Resolution(n).resolution = "dockrion_wins"
              /\ Resolution(n).source = "dockrion"
              /\ Resolution(n).constraint = PlatformString(n)
              /\ \E e \in entries :
                    /\ e[2] = n
                    /\ result.requirements[e[1]] = PlatformString(n)
                    /\ \A d \in entries : d[2] = n => d = e

\* a merger of framework langgraph, every user source empty
C11_Witness ==
    /\ Returned
    /\ framework = langgraph
    /\ Declared = <<>>
    /\ InRequirements(<<"l", "a", "n", "g", "g", "r", "a", "p", "h", ">", "=", "0", ".", "0", ".", "2", "0">>)
    /\ InRequirements(<<"l", "a", "n", "g", "c", "h", "a", "i", "n", "-", "c", "o", "r", "e", ">", "=", "0", ".", "1", ".", "0">>)
    /\ Resolution(langchain_core).resolution = "dockrion_wins"

\* the normalized names of the packages of every framework table
AllFrameworkNames ==
    UNION {NamesOf(FRAMEWORK_DEPENDENCIES[f][2]) : f \in 1..Len(FRAMEWORK_DEPENDENCIES)}

\* the packages of the frameworks not selected and of the Optional flags not enabled
InactiveNames == (AllFrameworkNames \cup OptionalNames) \ PlatformNames

\* C12: the output of merge holds the Core and Runtime packages always, the
\* packages of the selected framework's table and of the enabled Optional flags,
\* and a package of another framework or of a disabled flag exactly when a
\* user source declares it; a framework name the platform has no table of adds
\* no framework package and merge returns.
C12_ActivePlatformSet ==
    /\ (Called /\ ConflictNames = {}) => Returned
    /\ Returned =>
          /\ \A n \in CoreNames \cup RuntimeNames : Len(EntriesOf(n)) = 1
          /\ \A n \in NamesOf(FrameworkTable(framework)) \cup EnabledOptionalNames :
                Len(EntriesOf(n)) = 1
          /\ \A n \in InactiveNames :
                /\ EntriesOf(n) # <<>> <=> n \in DeclaredNames
                /\ HasResolution(n) <=> n \in DeclaredNames
          /\ ~DictHas(FRAMEWORK_DEPENDENCIES, framework) =>
                \A n \in AllFrameworkNames \ DeclaredNames : EntriesOf(n) = <<>>

\* merge_dependencies with a framework the platform has no table of, no flag
\* enabled, and LangGraph declared by the user: langgraph is in the output as
\* the user declared it, langchain-core and langfuse are not
C12_Witness ==
    /\ probe.fn = "merge_dependencies"
    /\ Returned
    /\ framework = <<"h", "a", "y", "s", "t", "a", "c", "k">>
    /\ ~observability.langfuse /\ ~observability.langsmith /\ ~has_safety_policies
    /\ EntriesOf(langgraph) = <<<<"L", "a", "n", "g", "G", "r", "a", "p", "h", "=", "=", "0", ".", "0", ".", "1">>>>
    /\ EntriesOf(langchain_core) = <<>>
    /\ EntriesOf(langfuse) = <<>>
    /\ Len(result.requirements) = Cardinality(CoreNames \cup RuntimeNames) + 2

(***************************************************************************)
(* Properties of repeated calls and of the caller's objects.               *)
(***************************************************************************)
\* the set of the entries of a requirements list
EntrySet(merge_result) ==
    {merge_result.requirements[i] : i \in 1..Len(merge_result.requirements)}

\* C13: a second call of merge with the same inputs (the same Requirement list,
\* the same file, the same extra dependency strings) ends as the first did, and
\* when both return their requirements lists are equal as sets.
C13_MergeIdempotent ==
    [][(call.count = 1 /\ call'.count = 2) =>
          /\ result'.raised = result.raised
          /\ result.raised = "no" => EntrySet(result') = EntrySet(result)]_vars

\* C14: when merge returns or raises, every Requirement object of the caller's
\* list has the name, constraints, extras and marker it had before the call.
C14_CallerObjectsUnchanged ==
    Called => user_requirements = call.user_requirements

\* what the call of thread t returns or raises when it runs alone, on the
\* Requirement objects as the caller built them
AloneResult(t) ==
    merge(framework, observability, has_safety_policies, threads[t].user_requirements,
          [exists |-> FALSE, lines |-> <<>>], threads[t].extra_dependencies)

\* C15: each of two merge calls whose steps interleave, handed the same list of
\* Requirement objects or lists of their own, returns or raises what the same
\* call does when it runs alone.
C15_ThreadsIndependent ==
    \A t \in DOMAIN threads :
        threads[t].pc = "done" => threads[t].result = AloneResult(t)

(***************************************************************************)
(* Properties of the merged declarations and of the result's lists.        *)
(***************************************************************************)
\* C16: when the combined user sources (explicit list, then file, then extra
\* strings) declare a package several times under one normalized name, merge
\* resolves one requirement for it: the name and marker of the first
\* declaration, the constraints of all declarations in source order, the
\* extras of all declarations without repetition; the resolution carries its
\* pip rendering as the user's string and the list has one entry for it.
C16_DuplicatesMerged ==
    Returned =>
        \A n \in DeclaredNames :
            /\ HasResolution(n)
            /\ Resolution(n).package = DeclarationsOf(n)[1].name
            /\ Resolution(n).original_user = UserString(n)
            /\ Len(EntriesOf(n)) = 1

\* the file lines "Pkg_Name[a]<2  # pinned" and pkg-name[b,a]>=1.0
C16_Witness ==
    /\ Returned
    /\ Len(DeclarationsOf(<<"p", "k", "g", "-", "n", "a", "m", "e">>)) = 2
    /\ Resolution(<<"p", "k", "g", "-", "n", "a", "m", "e">>).original_user = <<"P", "k", "g", "_", "N", "a", "m", "e", "[", "a", ",", "b", "]", "<", "2", ".", "0", ".", "0", ",", ">", "=", "1", ".", "0", ".", "0">>
    /\ result.requirements[1] = <<"P", "k", "g", "_", "N", "a", "m", "e", "[", "a", ",", "b", "]", "<", "2", ".", "0", ".", "0", ",", ">", "=", "1", ".", "0", ".", "0">>

\* how often the package n is named in a list of package names
TimesListed(names, n) ==
    Cardinality({i \in 1..Len(names) : normalize_package_name(names[i]) = n})

\* each place of a list of package names with the package named there
ListedPackages(names) == {<<i, normalize_package_name(names[i])>> : i \in 1..Len(names)}

\* the list names packages of the result only, each by the name its resolution has
ListedByPackage(names) ==
    \A i \in 1..Len(names) :
        /\ HasResolution(normalize_package_name(names[i]))
        /\ Resolution(normalize_package_name(names[i])).package = names[i]

\* C17 (as amended): after a successful merge user_overrides lists, each once,
\* exactly the packages that a user source declares, that are in the active
\* platform set and whose resolution is UserOverride (a package that only the
\* user declares has resolution UserOverride and is not listed), and
\* dockrion_versions lists, each once, exactly the packages whose resolution
\* is PlatformWins.
C17_ListsFollowResolutions ==
    Returned =>
        LET overrides == ListedPackages(result.user_overrides)
            platform == ListedPackages(result.dockrion_versions)
            declared == DeclaredNames \cap PlatformNames
        IN /\ ListedByPackage(result.user_overrides)
           /\ ListedByPackage(result.dockrion_versions)
           /\ \A n \in DictKeys(result.resolutions) :
                 /\ Cardinality({e \in overrides : e[2] = n}) =
                       IF n \in declared /\ Resolution(n).resolution = "user_override"
                       THEN 1 ELSE 0
                 /\ Cardinality({e \in platform : e[2] = n}) =
                       IF Resolution(n).resolution = "dockrion_wins" THEN 1 ELSE 0

\* fastapi>=0.110.0, an override of the platform's fastapi, next to Pkg_Name,
\* which only the user declares
C17_Witness ==
    /\ Returned
    /\ result.user_overrides = <<fastapi>>
    /\ HasResolution(<<"p", "k", "g", "-", "n", "a", "m", "e">>)
    /\ Resolution(<<"p", "k", "g", "-", "n", "a", "m", "e">>).resolution = "user_override"
    /\ TimesListed(result.dockrion_versions, dockrion) = 1

\* C17 as the specification states it: user_overrides lists every package whose
\* resolution is UserOverride
C17_EveryUserOverrideListed ==
    Returned =>
        \A n \in DictKeys(result.resolutions) :
            Resolution(n).resolution = "user_override"
            => TimesListed(result.user_overrides, n) = 1

\* the packages of the active platform set that the user declares without any
\* version constraint
UnversionedNames ==
    {n \in DeclaredNames : n \in PlatformNames /\ AllConstraints(DeclarationsOf(n)) = <<>>}

\* the warning of merge for the package n
WarningFor(n) ==
    <<"Using dockrion's version for ">> \o UserRequirement(n).name
    \o <<": ">> \o PlatformConstraint(n)
    \o <<" (you specified ">> \o UserString(n) \o <<")">>

Compared == probe # NoProbe /\ probe.fn = "compare"

\* the Versions parse_version returns for the version strings of SpecVersion
ParsedVersions == {parse_version(s).value : s \in VersionTexts}

\* the order of a pre-release tag: alpha -3, beta -2, rc -1
TagOrder(tag) ==
    CASE Lower(tag) \in {<<"a">>, <<"a", "l", "p", "h", "a">>} -> -3
      [] Lower(tag) \in {<<"b">>, <<"b", "e", "t", "a">>} -> -2
      [] Lower(tag) \in {<<"r", "c">>, <<"c">>} -> -1
      [] OTHER -> 0

\* (major, minor, patch, preOrder, preNum); a final release has preOrder 0
\* and a missing pre-release number counts as 0
OrderKey(v) ==
    <<v.major, v.minor, v.patch,
      IF v.pre_release = NoTag THEN 0 ELSE TagOrder(v.pre_release),
      IF v.pre_release = NoTag \/ v.pre_release_num = NoNum THEN 0 ELSE v.pre_release_num>>

\* k1 is before k2 at the first place where they differ
KeyBefore(k1, k2) == \E i \in 1..5 : k1[i] < k2[i] /\ \A j \in 1..(i - 1) : k1[j] = k2[j]

PreNumberTexts == {<<>>, <<"0">>, <<"1">>}

\* C19: two parsed versions compare as their 5-tuples (major, minor, patch,
\* preOrder, preNum) do, with alpha = -3, beta = -2, rc = -1, final release
\* = 0 and a missing pre-release number = 0: exactly one of <, == and >
\* holds, <= and >= are < or == and > or ==, the order is transitive,
\* X.Y.ZaN < X.Y.ZbN < X.Y.ZrcN < X.Y.Z, and a version string without minor
\* or patch gives a version equal to the one with zeros.
C19_VersionsTotallyOrdered ==
    Compared =>
        /\ Cardinality({r \in {"lt", "eq", "gt"} : answer[r]}) = 1
        /\ answer.le = (answer.lt \/ answer.eq)
        /\ answer.ge = (answer.gt \/ answer.eq)
        /\ answer.lt = KeyBefore(OrderKey(probe.version1), OrderKey(probe.version2))
        /\ answer.eq = (OrderKey(probe.version1) = OrderKey(probe.version2))
        /\ answer.gt = KeyBefore(OrderKey(probe.version2), OrderKey(probe.version1))
        /\ answer.lt => \A v3 \in ParsedVersions :
              VersionLt(probe.version2, v3) => VersionLt(probe.version1, v3)
        /\ \A numbers \in NumberTexts, num \in PreNumberTexts :
              /\ (probe.version_str1 = numbers \o <<"a">> \o num
                  /\ probe.version_str2 = numbers \o <<"b">> \o num) => answer.lt
              /\ (probe.version_str1 = numbers \o <<"b">> \o num
                  /\ probe.version_str2 = numbers \o <<"r", "c">> \o num) => answer.lt
              /\ (probe.version_str1 = numbers \o <<"r", "c">> \o num
                  /\ probe.version_str2 = numbers) => answer.lt
        /\ \A pre \in PreReleaseTexts :
              (probe.version_str1 \in {<<"1">> \o pre, <<"1", ".", "0">> \o pre}
               /\ probe.version_str2 = <<"1", ".", "0", ".", "0">> \o pre) => answer.eq

\* 1.0.0a1 compared with 1.0.0b1: only < holds
C19_Witness ==
    /\ Compared
    /\ probe.version_str1 = <<"1", ".", "0", ".", "0", "a", "1">>
    /\ probe.version_str2 = <<"1", ".", "0", ".", "0", "b", "1">>
    /\ answer.lt /\ answer.le /\ ~answer.eq /\ ~answer.gt /\ ~answer.ge

RoundTripped == probe # NoProbe /\ probe.fn = "round_trip"

\* C20: for every Version v that parse_version returns, with or without a
\* pre-release tag among a, alpha, b, beta, rc and c and with a pre-release
\* number that is absent, 0 or positive, parse_version(str(v)) returns a
\* Version equal to v.
C20_RoundTrip ==
    RoundTripped =>
        /\ answer.raised = "no"
        /\ VersionEq(answer.value, probe.version)
        /\ VersionEq(probe.version, answer.value)

\* 1.10rc0: str gives 1.10.0rc, which parses to a Version without a
\* pre-release number that is still equal
C20_Witness ==
    /\ RoundTripped
    /\ probe.version = Version(1, 10, 0, <<"r", "c">>, 0)
    /\ answer.raised = "no"
    /\ answer.value = Version(1, 10, 0, <<"r", "c">>, NoNum)
    /\ VersionEq(answer.value, probe.version)

(***************************************************************************)
(* Properties of VersionConstraint.is_satisfied_by, stated over the direct *)
(* calls of SpecVersion                                                    *)
(***************************************************************************)
SatisfiedCalled == probe # NoProbe /\ probe.fn = "is_satisfied_by"

\* the comparison of the version v with the version w under the operator op,
\* made on the 5-tuples
Compares(op, v, w) ==
    CASE op = "EQ" -> OrderKey(v) = OrderKey(w)
      [] op = "NE" -> OrderKey(v) # OrderKey(w)
      [] op = "GE" -> ~KeyBefore(OrderKey(v), OrderKey(w))
      [] op = "GT" -> KeyBefore(OrderKey(w), OrderKey(v))
      [] op = "LE" -> ~KeyBefore(OrderKey(w), OrderKey(v))
      [] op = "LT" -> KeyBefore(OrderKey(v), OrderKey(w))

\* the operator that accepts what op rejects
ComplementOf(op) ==
    CASE op = "EQ" -> "NE" [] op = "NE" -> "EQ" [] op = "LT" -> "GE"
      [] op = "GE" -> "LT" [] op = "GT" -> "LE" [] op = "LE" -> "GT"

\* C21: for a constraint c with operator EQ, NE, GE, GT, LE or LT and a
\* version v, c.is_satisfied_by(v) is the comparison of v with c.version
\* under that operator in the version order, and the constraint with the
\* complementary operator (NE for EQ, LT for GE, GT for LE) and the same
\* version gives the opposite answer.
C21_SatisfiedIsComparison ==
    (SatisfiedCalled /\ probe.constraint.operator # "COMPAT") =>
        /\ answer.value = Compares(probe.constraint.operator, probe.version,
                                   probe.constraint.version)
        /\ is_satisfied_by(VersionConstraint(ComplementOf(probe.constraint.operator),
                                             probe.constraint.version), probe.version)
              = ~answer.value

\* >1.3.0rc1 asked of 1.3.0: satisfied, the release is after its candidate
C21_Witness ==
    /\ SatisfiedCalled
    /\ probe.constraint_str = <<">", "1", ".", "3", ".", "0", "r", "c", "1">>
    /\ probe.version_str = <<"1", ".", "3", ".", "0">>
    /\ answer.value

\* the constraint string of the call writes a patch component: ~=X.Y.Z
WritesPatch == Len(Split(Drop(probe.constraint_str, 2), ".")) = 3

\* C22: a constraint ~=X.Y.Z written with a patch component, Z = 0 included,
\* is satisfied by v exactly when X.Y.Z <= v < X.(Y+1).0, and a constraint
\* ~=X.Y written without a patch exactly when X.Y.0 <= v < (X+1).0.0.
C22_CompatibleRelease ==
    (SatisfiedCalled /\ probe.constraint.operator = "COMPAT"
     /\ probe.constraint.version.pre_release = NoTag) =>
        LET lower == probe.constraint.version
            upper == IF WritesPatch THEN Version(lower.major, lower.minor + 1, 0, NoTag, NoNum)
                     ELSE Version(lower.major + 1, 0, 0, NoTag, NoNum)
        IN answer.value = (/\ ~KeyBefore(OrderKey(probe.version), OrderKey(lower))
                           /\ KeyBefore(OrderKey(probe.version), OrderKey(upper)))

(***************************************************************************)
(* Properties of the range-overlap check, stated over the direct calls of  *)
(* SpecProbe                                                               *)
(***************************************************************************)
CompatibleCalled ==
    probe # NoProbe
    /\ probe.fn \in {"constraints_are_compatible", "constraints_are_compatible twice"}

\* the place of the last EQ constraint of a list, 0 when it has none
LastPin(cs) ==
    IF \E i \in 1..Len(cs) : cs[i].operator = "EQ"
    THEN CHOOSE i \in 1..Len(cs) :
            cs[i].operator = "EQ" /\ \A j \in (i + 1)..Len(cs) : cs[j].operator # "EQ"
    ELSE 0

\* the versions (as 5-tuples) that bound the list from below: those of its
\* GE, GT and COMPAT constraints, or, when the list has an EQ constraint, the
\* version of the last one and those of the GE, GT and COMPAT constraints
\* after it
LowerBounds(cs) ==
    {OrderKey(cs[i].version) :
        i \in {j \in 1..Len(cs) : \/ j = LastPin(cs)
                                  \/ j > LastPin(cs) /\ cs[j].operator \in {"GE", "GT", "COMPAT"}}}

\* the same from above, with the LE and LT constraints
UpperBounds(cs) ==
    {OrderKey(cs[i].version) :
        i \in {j \in 1..Len(cs) : \/ j = LastPin(cs)
                                  \/ j > LastPin(cs) /\ cs[j].operator \in {"LE", "LT"}}}

Highest(keys) == CHOOSE k \in keys : \A other \in keys : ~KeyBefore(k, other)

Lowest(keys) == CHOOSE k \in keys : \A other \in keys : ~KeyBefore(other, k)

\* the first list has a min, the second a max, and the min is after the max
MinExceedsMax(cs1, cs2) ==
    /\ LowerBounds(cs1) # {}
    /\ UpperBounds(cs2) # {}
    /\ KeyBefore(Lowest(UpperBounds(cs2)), Highest(LowerBounds(cs1)))

Overlapping(cs1, cs2) == ~MinExceedsMax(cs1, cs2) /\ ~MinExceedsMax(cs2, cs1)

C28_OrderIndependent ==
    (probe # NoProbe /\ probe.fn = "constraints_are_compatible twice") =>
        answer.second = answer.value

(***************************************************************************)
(* Properties of resolve for Core and Runtime packages                     *)
(***************************************************************************)
\* versions that may satisfy the constraints given to resolve and the
\* platform's constraints for pydantic and fastapi
ResolveCandidates ==
    { Version(0, 0, 0, NoTag, NoNum), Version(0, 0, 1, <<"a">>, 1),
      Version(0, 0, 1, NoTag, NoNum), Version(0, 0, 2, NoTag, NoNum),
      Version(0, 109, 0, NoTag, NoNum), Version(0, 110, 0, NoTag, NoNum),
      Version(1, 0, 0, NoTag, NoNum), Version(1, 0, 1, NoTag, NoNum),
      Version(2, 4, 9, NoTag, NoNum), Version(2, 5, 0, <<"r", "c">>, 1),
      Version(2, 5, 0, NoTag, NoNum), Version(2, 5, 1, NoTag, NoNum),
      Version(3, 0, 0, NoTag, NoNum), Version(3, 0, 1, NoTag, NoNum) }

\* C24: for a Core or Runtime package, resolve returns UserOverride for a
\* requirement with constraints only if some version satisfies every
\* constraint of the user and every constraint of the platform.
C24_OverrideNeedsCommonVersion ==
    (/\ probe # NoProbe /\ probe.fn = "resolve"
     /\ ProbedCategory \in {"core", "runtime"}
     /\ probe.user_req.constraints # <<>>
     /\ answer.raised = "no"
     /\ answer.resolution = "user_override")
    => \E version \in ResolveCandidates :
          /\ SatisfiesAll(version, probe.user_req.constraints)
          /\ SatisfiesAll(version, parse_constraints(ProbedDockrionConstraint).value)

(***************************************************************************)
(* Properties of package identity and of the platform's categories, stated *)
(* over the direct calls of SpecProbe                                      *)
(***************************************************************************)
TypeAsked == probe # NoProbe /\ probe.fn = "get_dependency_type"

\* C30: for a DependencyMerger of any framework and flags, its resolver's
\* get_dependency_type(name) differs from UserOnly exactly when name is a
\* package of the active platform set that get_dockrion_requirements returns.
C30_ResolverAndMergerAgree ==
    TypeAsked =>
        (answer.value # "user") =
            (normalize_package_name(probe.package)
                \in {normalize_package_name(k) : k \in answer.dockrion_requirements})

\* spellings of one package each, with the name the package is known by
SpellingGroups ==
    { [name |-> langchain_core,
       spellings |-> {<<"l", "a", "n", "g", "c", "h", "a", "i", "n", "_", "c", "o", "r", "e">>, <<"l", "a", "n", "g", "c", "h", "a", "i", "n", "-", "c", "o", "r", "e">>, <<"L", "a", "n", "g", "c", "h", "a", "i", "n", "-", "C", "o", "r", "e">>, <<"L", "A", "N", "G", "C", "H", "A", "I", "N", ".", "-", "_", "c", "o", "r", "e">>}],
      [name |-> <<"p", "k", "g", "-", "n", "a", "m", "e">>, spellings |-> {<<"P", "k", "g", "_", "N", "a", "m", "e">>, <<"p", "k", "g", "-", "n", "a", "m", "e">>, <<"P", "K", "G", ".", ".", "N", "A", "M", "E">>}],
      [name |-> langgraph, spellings |-> {<<"L", "a", "n", "g", "G", "r", "a", "p", "h">>, <<"l", "a", "n", "g", "g", "r", "a", "p", "h">>}],
      [name |-> pydantic, spellings |-> {pydantic, <<"P", "y", "d", "a", "n", "t", "i", "c">>}],
      [name |-> fastapi, spellings |-> {fastapi, <<"F", "a", "s", "t", "A", "P", "I">>}],
      [name |-> prometheus_client, spellings |-> {<<"p", "r", "o", "m", "e", "t", "h", "e", "u", "s", "_", "c", "l", "i", "e", "n", "t">>, <<"P", "r", "o", "m", "e", "t", "h", "e", "u", "s", ".", "C", "l", "i", "e", "n", "t">>}],
      [name |-> langfuse, spellings |-> {langfuse, <<"L", "a", "n", "g", "F", "u", "s", "e">>}],
      [name |-> regex, spellings |-> {regex}] }

\* the group of spellings a name belongs to
GroupOf(name) == CHOOSE g \in SpellingGroups : name \in g.spellings

\* what resolve returned, without the spelling of the name
Unspelled(resolved, name) ==
    IF resolved.raised = "no"
    THEN <<"no", resolved.resolution, resolved.source, Drop(resolved.constraint, Len(name))>>
    ELSE <<resolved.raised>>

\* the resolutions of a MergeResult, each without the spelling of the name
UnspelledResolutions(merged) ==
    IF merged.raised = "no"
    THEN [k \in 1..Len(merged.resolutions) |->
            <<merged.resolutions[k][1],
              Unspelled(merged.resolutions[k][2], merged.resolutions[k][2].package)>>]
    ELSE <<merged.raised>>

\* C25: normalize_package_name applied twice gives what it gives applied
\* once, and spellings of one package (langchain_core, langchain-core,
\* Langchain-Core) get the same category from get_dependency_type, UserOnly
\* exactly when the package is in no table of the resolver, and the same
\* resolution kind, source and constraint from resolve and from merge.
C25_SpellingIrrelevant ==
    /\ TypeAsked =>
          /\ normalize_package_name(probe.package) = GroupOf(probe.package).name
          /\ normalize_package_name(normalize_package_name(probe.package))
                = normalize_package_name(probe.package)
          /\ answer.value = CategoryOf(framework, GroupOf(probe.package).name)
    /\ (probe # NoProbe /\ probe.fn = "resolve") =>
          \A other \in GroupOf(probe.user_req.name).spellings :
              Unspelled(resolve(build_dockrion_deps(probe.framework),
                                [probe.user_req EXCEPT !.name = other],
                                probe.dockrion_constraint), other)
                  = Unspelled(answer, probe.user_req.name)
    /\ (probe # NoProbe /\ probe.fn = "merge_dependencies" /\ extra_dependencies # <<>>) =>
          \A other \in GroupOf(NameRun(extra_dependencies[1])).spellings :
              UnspelledResolutions(
                  merge(framework, observability, has_safety_policies, <<>>, requirements_file,
                        <<other \o Drop(extra_dependencies[1],
                                        Len(NameRun(extra_dependencies[1])))>>))
                  = UnspelledResolutions(result)

\* langchain_core>=3.0.0 given to the resolver of framework LangGraph
C25_Witness ==
    /\ probe # NoProbe /\ probe.fn = "resolve"
    /\ probe.framework = <<"L", "a", "n", "g", "G", "r", "a", "p", "h">>
    /\ probe.user_req.name = <<"l", "a", "n", "g", "c", "h", "a", "i", "n", "_", "c", "o", "r", "e">>
    /\ probe.dockrion_constraint = NoneText
    /\ answer.raised = "no"
    /\ answer.resolution = "user_override"
    /\ answer.constraint = <<"l", "a", "n", "g", "c", "h", "a", "i", "n", "_", "c", "o", "r", "e", ">", "=", "3", ".", "0", ".", "0">>
    /\ answer.original_dockrion = <<"l", "a", "n", "g", "c", "h", "a", "i", "n", "-", "c", "o", "r", "e", ">", "=", "0", ".", "1", ".", "0">>

(***************************************************************************)
(* Properties of parse_requirement and parse_requirements_string, stated   *)
(* over the probes ParseRequirement, ParseRequirementsString and           *)
(* ParseRequirementsFile.                                                  *)
(***************************************************************************)
OperatorChars == {"<", ">", "=", "!", "~"}

\* the text of req_str before the environment marker
BeforeMarker(req_str) == Split(Strip(req_str), ";")[1]

\* what follows the name and the extras: the text from the first operator on
ConstraintText(req_str) ==
    LET s == BeforeMarker(req_str)
        at == {i \in 1..Len(s) : s[i] \in OperatorChars}
    IN  IF at = {} THEN <<>>
        ELSE SubSeq(s, CHOOSE i \in at : \A j \in at : i <= j, Len(s))

\* its comma-separated segments that are well-formed constraints, in order
WellFormedSegments(req_str) ==
    SelectSeq(Split(ConstraintText(req_str), ","),
              LAMBDA seg : Strip(seg) # <<>> /\ parse_version_constraint(Strip(seg)).ok)

ParsedSegments(req_str) ==
    LET segs == WellFormedSegments(req_str)
    IN  [i \in 1..Len(segs) |-> parse_version_constraint(Strip(segs[i])).value]

RequirementParsed == probe # NoProbe /\ probe.fn = "parse_requirement"

\* C26: the constraints of the Requirement that parse_requirement returns are
\* exactly the well-formed comma-separated segments that follow the name (and
\* the extras) in the string, in their order: a malformed segment is skipped
\* and no well-formed one is lost.
C26_ConstraintsAreWellFormedSegments ==
    RequirementParsed =>
        /\ answer.value.ok
        /\ answer.value.value.constraints = ParsedSegments(probe.req_str)

LinesParsed ==
    /\ probe # NoProbe
    /\ probe.fn \in {"parse_requirements_string", "parse_requirements_file"}
    /\ answer.raised = "no"

\* the lines given to the call
GivenLines ==
    IF probe.fn = "parse_requirements_file" THEN probe.file.lines ELSE probe.lines

\* a line without its inline comment and the white space around it
Cleaned(line) ==
    LET at == {i \in 1..Len(line) : line[i] = "#"}
    IN  Strip(IF at = {} THEN line
              ELSE SubSeq(line, 1, (CHOOSE i \in at : \A j \in at : i <= j) - 1))

\* a line that is a requirement: something is left of it, and that begins with
\* the first character of a package name
IsRequirementLine(line) ==
    /\ Cleaned(line) # <<>>
    /\ Head(Cleaned(line)) \in AlnumChars

RequirementLines == SelectSeq(GivenLines, IsRequirementLine)

\* C27: parse_requirements_string, and parse_requirements_file over the same
\* lines, return exactly one Requirement per line that is a requirement, in
\* line order: blank lines, comment lines and option lines give no entry, and
\* each entry is the Requirement of its line without the inline comment.
C27_OneRequirementPerLine ==
    LinesParsed =>
        /\ Len(answer.value) = Len(RequirementLines)
        /\ \A i \in 1..Len(RequirementLines) :
              /\ answer.value[i].original = Cleaned(RequirementLines[i])
              /\ answer.value[i] = parse_requirement(Cleaned(RequirementLines[i])).value
        /\ \A i \in 1..Len(GivenLines) :
              (\/ Strip(GivenLines[i]) = <<>>
               \/ Head(Strip(GivenLines[i])) \in {"#", "-"})
                  => ~IsRequirementLine(GivenLines[i])
        /\ probe.fn = "parse_requirements_file" =>
              answer.value = parse_requirements_string(probe.file.lines)

\* the file "-r other.txt" / "fastapi<1  # pinned" gives the one Requirement
\* fastapi<1.0.0
C27_Witness ==
    /\ LinesParsed
    /\ probe.fn = "parse_requirements_file"
    /\ probe.file.lines = <<<<"-", "r", " ", "o", "t", "h", "e", "r", ".", "t", "x", "t">>, <<"f", "a", "s", "t", "a", "p", "i", "<", "1", " ", " ", "#", " ", "p", "i", "n", "n", "e", "d">>>>
    /\ Len(answer.value) = 1
    /\ answer.value[1].name = <<"f", "a", "s", "t", "a", "p", "i">>
    /\ answer.value[1].original = <<"f", "a", "s", "t", "a", "p", "i", "<", "1">>
    /\ answer.value[1].constraints = <<VersionConstraint("LT", Version(1, 0, 0, NoTag, NoNum))>>

(***************************************************************************)
(* Extras and markers of the user's declarations in the result of merge.   *)
(***************************************************************************)
\* the extras the user asked for package n, over all its declarations
RequestedExtras(n) ==
    UNION {{DeclarationsOf(n)[i].extras[j] : j \in 1..Len(DeclarationsOf(n)[i].extras)} :
              i \in 1..Len(DeclarationsOf(n))}

\* C29: in the result of a merge that returned, the requirement string of
\* every package the user declared contains each extra and the environment
\* marker the user requested for it, whichever resolution and category apply.
C29_ExtrasAndMarkerKept ==
    Returned =>
        \A n \in DeclaredNames :
            /\ EntriesOf(n) # <<>>
            /\ \A i \in 1..Len(EntriesOf(n)) :
                  /\ \A extra \in RequestedExtras(n) :
                        Contains(EntriesOf(n)[i], <<"[">>) /\ Contains(EntriesOf(n)[i], extra)
                  /\ UserRequirement(n).marker # NoMarker =>
                        Contains(EntriesOf(n)[i], UserRequirement(n).marker)
====
